---------------------------- MODULE Spec2Model ----------------------------
(***************************************************************************)
(* Verification model of the Yamanaka-Ankersen / Clohessy-Wiltshire        *)
(* relative-motion propagation library (sakobu/hcw-ya).                    *)
(*                                                                         *)
(* NUMBERS.  The library computes with real numbers.  The model computes   *)
(* exactly in the Q-vector space spanned by 1, alpha and pi, where         *)
(* alpha = atan(4/3), so that cos(alpha) = 3/5 and sin(alpha) = 4/5.  A    *)
(* number is a tuple <<q, a, p, d>> standing for (q + a*alpha + p*pi)/d    *)
(* with d > 0 and gcd(q, a, p, d) = 1.  By Baker's theorem 1, alpha and pi *)
(* are linearly independent over the rationals, hence two such numbers are *)
(* equal as reals iff their tuples are equal.  Tuples with d = 0 are the   *)
(* non-finite values NaN, +Infinity, -Infinity of the IEEE arithmetic      *)
(* the library runs on, and Unrep, a value outside the representable       *)
(* space (for instance the product of two angles).  Rounding is not        *)
(* modelled: equalities checked here are the exact algebraic ones.         *)
(*                                                                         *)
(* ANGLES.  Math.sin and Math.cos are evaluated exactly on the lattice of  *)
(* angles h*(pi/2) + j*alpha (h, j integers), where both are rational.     *)
(***************************************************************************)
EXTENDS Integers, Sequences, FiniteSets, TLC

VARIABLES inp, pc, mid, out

vars == <<inp, pc, mid, out>>

---------------------------------------------------------------------------
(* Exact arithmetic                                                        *)

Abs(n) == IF n < 0 THEN -n ELSE n

RECURSIVE GCD(_, _)
GCD(m, n) == IF n = 0 THEN m ELSE GCD(n, m % n)

LCM(m, n) == (m \div GCD(m, n)) * n

NaN == <<0, 0, 0, 0>>
PInf == <<1, 0, 0, 0>>
NInf == <<-1, 0, 0, 0>>
Unrep == <<0, 1, 0, 0>>

IsNum(x) == x[4] > 0
IsRat(x) == x[4] > 0 /\ x[2] = 0 /\ x[3] = 0
IsInf(x) == x = PInf \/ x = NInf

\* (q + a*alpha + p*pi)/d with the common factor g taken out
Reduce(q, a, p, d, g) == <<q \div g, a \div g, p \div g, d \div g>>

Norm(q, a, p, d) ==
  Reduce(q, a, p, d, GCD(GCD(Abs(q), Abs(a)), GCD(Abs(p), d)))

Rat(n, d) == Norm(n, 0, 0, d)
Num(n) == <<n, 0, 0, 1>>
Zero == Num(0)
One == Num(1)
\* k * alpha and k * (pi/2) as numbers (radians)
Alpha(k) == <<0, k, 0, 1>>
HalfPi(k) == Norm(0, 0, k, 2)

\* sign of a rational or infinite value: -1, 0 or 1
Sign(x) == IF x[1] > 0 THEN 1 ELSE IF x[1] < 0 THEN -1 ELSE 0

Neg(x) == IF IsNum(x) THEN <<-x[1], -x[2], -x[3], x[4]>>
          ELSE IF x = PInf THEN NInf
          ELSE IF x = NInf THEN PInf
          ELSE x

\* x + y for finite x and y, over the common denominator l
AddOver(x, y, l) ==
  Norm(x[1] * (l \div x[4]) + y[1] * (l \div y[4]),
       x[2] * (l \div x[4]) + y[2] * (l \div y[4]),
       x[3] * (l \div x[4]) + y[3] * (l \div y[4]), l)

Add(x, y) ==
  IF x = NaN \/ y = NaN THEN NaN
  ELSE IF x = Unrep \/ y = Unrep THEN Unrep
  ELSE IF IsInf(x) THEN (IF IsInf(y) /\ y # x THEN NaN ELSE x)
  ELSE IF IsInf(y) THEN y
  ELSE AddOver(x, y, LCM(x[4], y[4]))

Sub(x, y) == Add(x, Neg(y))

\* r * y for a rational r = x[1]/x[4]; the common factors are cancelled
\* before multiplying, which leaves the product in lowest terms
ScaleBy(x, y, g1, g2) ==
  <<(x[1] \div g1) * (y[1] \div g2), (x[1] \div g1) * (y[2] \div g2),
    (x[1] \div g1) * (y[3] \div g2), (x[4] \div g2) * (y[4] \div g1)>>

Scale(x, y) ==
  IF x[1] = 0 \/ (y[1] = 0 /\ y[2] = 0 /\ y[3] = 0) THEN Zero
  ELSE ScaleBy(x, y, GCD(Abs(x[1]), y[4]),
               GCD(GCD(GCD(Abs(y[1]), Abs(y[2])), Abs(y[3])), x[4]))

Mul(x, y) ==
  IF x = NaN \/ y = NaN THEN NaN
  ELSE IF x = Unrep \/ y = Unrep THEN Unrep
  ELSE IF IsInf(x) \/ IsInf(y) THEN
         (IF (IsNum(x) /\ ~IsRat(x)) \/ (IsNum(y) /\ ~IsRat(y)) THEN Unrep
          ELSE IF Sign(x) * Sign(y) > 0 THEN PInf
          ELSE IF Sign(x) * Sign(y) < 0 THEN NInf
          ELSE NaN)
  ELSE IF IsRat(x) \/ IsRat(y)
       THEN Scale(IF IsRat(x) THEN x ELSE y, IF IsRat(x) THEN y ELSE x)
  ELSE Unrep

\* 1/y for a rational or infinite y (the sign of a zero is not tracked:
\* 1/0 is taken as +Infinity)
Recip(y) ==
  IF IsInf(y) THEN Zero
  ELSE IF y[1] = 0 THEN PInf
  ELSE IF y[1] > 0 THEN <<y[4], 0, 0, y[1]>>
  ELSE <<-y[4], 0, 0, -y[1]>>

Div(x, y) ==
  IF x = NaN \/ y = NaN THEN NaN
  ELSE IF x = Unrep \/ y = Unrep THEN Unrep
  ELSE IF ~IsRat(y) /\ ~IsInf(y) THEN Unrep
  ELSE IF IsInf(x) /\ IsInf(y) THEN NaN
  ELSE Mul(x, Recip(y))

\* x < y and x >= y as the IEEE comparisons: false when an operand is NaN
Less(x, y) ==
  IF x = NaN \/ y = NaN THEN FALSE
  ELSE IF x = y THEN FALSE
  ELSE IF x = NInf \/ y = PInf THEN TRUE
  ELSE IF x = PInf \/ y = NInf THEN FALSE
  ELSE x[1] * y[4] < y[1] * x[4]

GreaterEq(x, y) ==
  IF x = NaN \/ y = NaN THEN FALSE
  ELSE x = y \/ Less(y, x)

Greater(x, y) == Less(y, x)

MathAbs(x) == IF IsNum(x) THEN (IF x[1] < 0 THEN Neg(x) ELSE x)
              ELSE IF IsInf(x) THEN PInf ELSE x

---------------------------------------------------------------------------
(* Trigonometry on the angle lattice                                       *)

\* <<cos, sin>> of j * alpha, by the angle-addition formulas
RECURSIVE CisAlpha(_)
CisAlpha(j) ==
  IF j = 0 THEN <<One, Zero>>
  ELSE IF j > 0 THEN
    LET z == CisAlpha(j - 1)
    IN  <<Sub(Mul(z[1], Rat(3, 5)), Mul(z[2], Rat(4, 5))),
          Add(Mul(z[1], Rat(4, 5)), Mul(z[2], Rat(3, 5)))>>
  ELSE
    LET z == CisAlpha(-j) IN <<z[1], Neg(z[2])>>

\* rotation of <<cos, sin>> by h quarter turns
QuarterTurn(z, h) ==
  LET m == h % 4
  IN  IF m = 0 THEN z
      ELSE IF m = 1 THEN <<Neg(z[2]), z[1]>>
      ELSE IF m = 2 THEN <<Neg(z[1]), Neg(z[2])>>
      ELSE <<z[2], Neg(z[1])>>

\* x is an angle h*(pi/2) + j*alpha of the lattice
OnLattice(x) ==
  IsNum(x) /\ x[1] = 0 /\ x[2] % x[4] = 0 /\ (2 * x[3]) % x[4] = 0

Cis(x) == QuarterTurn(CisAlpha(x[2] \div x[4]), (2 * x[3]) \div x[4])

MathCos(x) == IF x = NaN \/ IsInf(x) THEN NaN
              ELSE IF OnLattice(x) THEN Cis(x)[1] ELSE Unrep

MathSin(x) == IF x = NaN \/ IsInf(x) THEN NaN
              ELSE IF OnLattice(x) THEN Cis(x)[2] ELSE Unrep

\* the values Less and GreaterEq are defined on
Comparable(x) == IsRat(x) \/ IsInf(x) \/ x = NaN

MathPI == <<0, 0, 1, 1>>

\* integer square and cube roots of a natural number, -1 when there is none
ISqrt(n) ==
  IF \E r \in 0..n : r * r = n THEN CHOOSE r \in 0..n : r * r = n ELSE -1

ICbrt(n) ==
  IF \E r \in 0..n : r * r * r = n
  THEN CHOOSE r \in 0..n : r * r * r = n ELSE -1

\* Math.sqrt and Math.cbrt, exact on squares and cubes of rationals
MathSqrt(x) ==
  IF x = NaN \/ x = Unrep \/ x = PInf THEN x
  ELSE IF x = NInf THEN NaN
  ELSE IF ~IsRat(x) THEN Unrep
  ELSE IF x[1] < 0 THEN NaN
  ELSE IF ISqrt(x[1]) < 0 \/ ISqrt(x[4]) < 0 THEN Unrep
  ELSE <<ISqrt(x[1]), 0, 0, ISqrt(x[4])>>

MathCbrt(x) ==
  IF ~IsNum(x) THEN x
  ELSE IF ~IsRat(x) THEN Unrep
  ELSE IF ICbrt(Abs(x[1])) < 0 \/ ICbrt(x[4]) < 0 THEN Unrep
  ELSE <<Sign(x) * ICbrt(Abs(x[1])), 0, 0, ICbrt(x[4])>>

\* Math.tan(x) = sin(2x) / (1 + cos(2x)) when 2x is on the lattice; at the
\* poles the floating-point tangent is huge and is taken as infinite
MathTan(x) ==
  IF x = NaN \/ IsInf(x) THEN NaN
  ELSE IF x = Unrep THEN Unrep
  ELSE LET y == Add(x, x)
       IN  IF ~OnLattice(y) THEN Unrep
           ELSE IF Add(One, MathCos(y)) = Zero
                THEN (IF x[3] < 0 THEN NInf ELSE PInf)
           ELSE Div(MathSin(y), Add(One, MathCos(y)))

\* j*alpha + h*(pi/2) in millionths of a radian, rounded
LatticeMicro(j, h) == j * 927295 + h * 1570796

\* the lattice angles y with -pi < y < pi, as <<j, h>>
PrincipalLattice ==
  {jh \in (-3..3) \X (-2..2) :
     /\ LatticeMicro(jh[1], jh[2]) > -3141593
     /\ LatticeMicro(jh[1], jh[2]) < 3141593}

LatticeAngle(jh) == Add(Alpha(jh[1]), HalfPi(jh[2]))

\* Math.atan(t): the angle x in (-pi/2, pi/2) with tan(x) = t, found among
\* the halves of the lattice angles
MathAtan(t) ==
  IF t = NaN \/ t = Unrep THEN t
  ELSE IF t = PInf THEN HalfPi(1)
  ELSE IF t = NInf THEN HalfPi(-1)
  ELSE IF ~IsRat(t) THEN Unrep
  ELSE LET hit(jh) == MathTan(Div(LatticeAngle(jh), Num(2))) = t
       IN  IF \E jh \in PrincipalLattice : hit(jh)
           THEN Div(LatticeAngle(CHOOSE jh \in PrincipalLattice : hit(jh)),
                    Num(2))
           ELSE Unrep

---------------------------------------------------------------------------
(* Frame conversion                                                        *)

\* the variant of inputStateAfter in which the conversion permutes the
\* components of its argument in place
inputStatePermutedInPlace(state, frame) ==
  IF frame = "RIC"
  THEN [position |-> <<state.position[2], state.position[3], state.position[1]>>,
        velocity |-> <<state.velocity[2], state.velocity[3], state.velocity[1]>>]
  ELSE state

\* the argument object of a frame conversion after the call: the components
\* are read and a new state is built, the argument is left as it was
inputStateAfter(state, frame) == state

\* the variant of toInternalFromFrame that permutes [R, I, C] to [C, R, I]
toInternalFromFrameRotatedTwice(state, from) ==
  IF from = "RIC"
  THEN [position |-> <<state.position[3], state.position[1], state.position[2]>>,
        velocity |-> <<state.velocity[3], state.velocity[1], state.velocity[2]>>]
  ELSE state

toInternalFromFrame(state, from) ==
  IF from = "RIC"
  THEN [position |-> <<state.position[2], state.position[3], state.position[1]>>,
        velocity |-> <<state.velocity[2], state.velocity[3], state.velocity[1]>>]
  ELSE state

\* the variant of fromInternalToFrame that permutes the position only
fromInternalToFramePositionOnly(state, to) ==
  IF to = "RIC"
  THEN [position |-> <<state.position[3], state.position[1], state.position[2]>>,
        velocity |-> state.velocity]
  ELSE state

fromInternalToFrame(state, to) ==
  IF to = "RIC"
  THEN [position |-> <<state.position[3], state.position[1], state.position[2]>>,
        velocity |-> <<state.velocity[3], state.velocity[1], state.velocity[2]>>]
  ELSE state

---------------------------------------------------------------------------
(* Auxiliary scalar functions                                              *)

rho(e, theta) == Add(One, Mul(e, MathCos(theta)))

s(e, theta) == Mul(rho(e, theta), MathSin(theta))

c(e, theta) == Mul(rho(e, theta), MathCos(theta))

\* the variant of sPrime without its double-angle term
sPrimeSingleAngle(e, theta) == MathCos(theta)

sPrime(e, theta) ==
  Add(MathCos(theta), Mul(e, MathCos(Mul(Num(2), theta))))

\* the variant of cPrime without the leading minus sign
cPrimePositive(e, theta) ==
  Add(MathSin(theta), Mul(e, MathSin(Mul(Num(2), theta))))

cPrime(e, theta) ==
  Neg(Add(MathSin(theta), Mul(e, MathSin(Mul(Num(2), theta)))))

\* Math.pow(h, 1.5), exact when h is the square of a rational
MathPow15(h) ==
  IF ~IsNum(h) THEN h
  ELSE IF ~IsRat(h) THEN Unrep
  ELSE IF h[1] < 0 THEN NaN
  ELSE IF ISqrt(h[1]) < 0 \/ ISqrt(h[4]) < 0 THEN Unrep
  ELSE Rat(h[1] * ISqrt(h[1]), h[4] * ISqrt(h[4]))

\* the variant of kSquared that returns k
kSquaredUnsquared(elements) ==
  Div(elements.gravitationalParameter, MathPow15(elements.angularMomentum))

kSquared(elements) ==
  LET k == Div(elements.gravitationalParameter,
               MathPow15(elements.angularMomentum))
  IN  Mul(k, k)

\* the variant of J that is quadratic in the elapsed time
JQuadratic(elements, deltaTime) ==
  Mul(Mul(kSquared(elements), deltaTime), deltaTime)

\* the variant of J that leaves the elapsed time out
JWithoutTime(elements, deltaTime) == kSquared(elements)

J(elements, deltaTime) == Mul(kSquared(elements), deltaTime)

---------------------------------------------------------------------------
(* Coordinate transform (true <-> modified)                                *)

\* The local constants of a function (rhoVal, k2, eSinTheta, ...) are
\* computed once, where the function is entered, and handed to the rest of
\* its body, which is the operator named ...With.

\* the variant of toModifiedCoordinatesWith whose velocity term is not
\* multiplied by the velocity: 1/(k2*rho) instead of velocity/(k2*rho)
toModifiedCoordinatesWithUnitVelocity(state, rhoVal, k2, eSinTheta) ==
  LET position(i) == Mul(rhoVal, state.position[i])
      velocity(i) == Add(Mul(Neg(eSinTheta), state.position[i]),
                         Div(One, Mul(k2, rhoVal)))
  IN  [position |-> <<position(1), position(2), position(3)>>,
       velocity |-> <<velocity(1), velocity(2), velocity(3)>>]

toModifiedCoordinatesWith(state, rhoVal, k2, eSinTheta) ==
  LET position(i) == Mul(rhoVal, state.position[i])
      velocity(i) == Add(Mul(Neg(eSinTheta), state.position[i]),
                         Div(state.velocity[i], Mul(k2, rhoVal)))
  IN  [position |-> <<position(1), position(2), position(3)>>,
       velocity |-> <<velocity(1), velocity(2), velocity(3)>>]

toModifiedCoordinates(state, elements, theta) ==
  toModifiedCoordinatesWith(state, rho(elements.eccentricity, theta),
                            kSquared(elements),
                            Mul(elements.eccentricity, MathSin(theta)))

\* the variant of fromModifiedCoordinatesWith with -e*sin(theta) in the
\* velocity
fromModifiedCoordinatesWithNegatedSine(modifiedState, rhoVal, k2, eSinTheta) ==
  LET position(i) == Div(modifiedState.position[i], rhoVal)
      velocity(i) == Mul(k2, Add(Mul(Neg(eSinTheta), modifiedState.position[i]),
                                 Mul(rhoVal, modifiedState.velocity[i])))
  IN  [position |-> <<position(1), position(2), position(3)>>,
       velocity |-> <<velocity(1), velocity(2), velocity(3)>>]

fromModifiedCoordinatesWith(modifiedState, rhoVal, k2, eSinTheta) ==
  LET position(i) == Div(modifiedState.position[i], rhoVal)
      velocity(i) == Mul(k2, Add(Mul(eSinTheta, modifiedState.position[i]),
                                 Mul(rhoVal, modifiedState.velocity[i])))
  IN  [position |-> <<position(1), position(2), position(3)>>,
       velocity |-> <<velocity(1), velocity(2), velocity(3)>>]

fromModifiedCoordinates(modifiedState, elements, theta) ==
  fromModifiedCoordinatesWith(modifiedState, rho(elements.eccentricity, theta),
                              kSquared(elements),
                              Mul(elements.eccentricity, MathSin(theta)))

---------------------------------------------------------------------------
(* In-plane state transition                                               *)

\* left-to-right sum and product of a non-empty sequence of numbers
RECURSIVE SumSeq(_)
SumSeq(xs) ==
  IF Len(xs) = 1 THEN xs[1]
  ELSE Add(SumSeq(SubSeq(xs, 1, Len(xs) - 1)), xs[Len(xs)])

RECURSIVE Prod(_)
Prod(xs) ==
  IF Len(xs) = 1 THEN xs[1]
  ELSE Mul(Prod(SubSeq(xs, 1, Len(xs) - 1)), xs[Len(xs)])

computePseudoInitialInPlaneWith(state, e, rho0, s0, c0) ==
  LET oneMinusE2 == Sub(One, Mul(e, e))
      factor == Div(One, oneMinusE2)
      onePlusInvRho0 == Add(One, Div(One, rho0))
      xBar == Mul(factor, SumSeq(<<
                Mul(Sub(One, Mul(e, e)), state.x),
                Prod(<<Num(3), e, Div(s0, rho0), onePlusInvRho0, state.z>>),
                Prod(<<Neg(e), s0, onePlusInvRho0, state.vx>>),
                Mul(Add(Mul(Neg(e), c0), Num(2)), state.vz)>>))
      zBar == Mul(factor, SumSeq(<<
                Zero,
                Prod(<<Num(-3), Div(s0, rho0),
                       Add(One, Div(Mul(e, e), rho0)), state.z>>),
                Prod(<<s0, onePlusInvRho0, state.vx>>),
                Mul(Sub(c0, Mul(Num(2), e)), state.vz)>>))
      vxBar == Mul(factor, SumSeq(<<
                Zero,
                Prod(<<Num(-3), Add(Div(c0, rho0), e), state.z>>),
                Mul(Add(Mul(c0, onePlusInvRho0), e), state.vx),
                Mul(Neg(s0), state.vz)>>))
      vzBar == Mul(factor, SumSeq(<<
                Zero,
                Mul(Sub(Add(Mul(Num(3), rho0), Mul(e, e)), One), state.z),
                Prod(<<Neg(rho0), rho0, state.vx>>),
                Prod(<<e, s0, state.vz>>)>>))
  IN  [x |-> xBar, z |-> zBar, vx |-> vxBar, vz |-> vzBar]

\* the variant of computePseudoInitialInPlane with s0 and c0 exchanged
computePseudoInitialInPlaneExchanged(state, e, theta0) ==
  computePseudoInitialInPlaneWith(state, e, rho(e, theta0), c(e, theta0),
                                  s(e, theta0))

computePseudoInitialInPlane(state, e, theta0) ==
  computePseudoInitialInPlaneWith(state, e, rho(e, theta0), s(e, theta0),
                                  c(e, theta0))

propagateInPlaneWith(pseudoInitial, e, JValue, rhoVal, sVal, cVal, sPrimeVal, cPrimeVal) ==
  LET oneOverRho == Div(One, rhoVal)
      x == SumSeq(<<
             Mul(One, pseudoInitial.x),
             Prod(<<Neg(cVal), Add(One, oneOverRho), pseudoInitial.z>>),
             Prod(<<sVal, Add(One, oneOverRho), pseudoInitial.vx>>),
             Prod(<<Num(3), rhoVal, rhoVal, JValue, pseudoInitial.vz>>)>>)
      z == SumSeq(<<
             Mul(Zero, pseudoInitial.x),
             Mul(sVal, pseudoInitial.z),
             Mul(cVal, pseudoInitial.vx),
             Mul(Sub(Num(2), Prod(<<Num(3), e, sVal, JValue>>)),
                 pseudoInitial.vz)>>)
      vx == SumSeq(<<
             Mul(Zero, pseudoInitial.x),
             Prod(<<Num(2), sVal, pseudoInitial.z>>),
             Mul(Sub(Mul(Num(2), cVal), e), pseudoInitial.vx),
             Prod(<<Num(3),
                    Sub(One, Prod(<<Num(2), e, sVal, JValue>>)),
                    pseudoInitial.vz>>)>>)
      vz == SumSeq(<<
             Mul(Zero, pseudoInitial.x),
             Mul(sPrimeVal, pseudoInitial.z),
             Mul(cPrimeVal, pseudoInitial.vx),
             Prod(<<Num(-3), e,
                    Add(Mul(sPrimeVal, JValue),
                        Div(sVal, Mul(rhoVal, rhoVal))),
                    pseudoInitial.vz>>)>>)
  IN  [x |-> x, z |-> z, vx |-> vx, vz |-> vz]

propagateInPlane(pseudoInitial, e, theta, JValue) ==
  propagateInPlaneWith(pseudoInitial, e, JValue, rho(e, theta), s(e, theta),
                       c(e, theta), sPrime(e, theta), cPrime(e, theta))

---------------------------------------------------------------------------
(* Out-of-plane state transition                                           *)

\* the variant of propagateOutOfPlaneWith with +sin(deltaTheta) in both rows
propagateOutOfPlaneWithSameSine(initial, rho0, rhoT, cosDelta, sinDelta) ==
  LET factor == Div(One, Div(rhoT, rho0))
      y == Mul(factor, Add(Mul(cosDelta, initial.y), Mul(sinDelta, initial.vy)))
      vy == Mul(factor, Add(Mul(sinDelta, initial.y),
                            Mul(cosDelta, initial.vy)))
  IN  [y |-> y, vy |-> vy]

\* the variant of propagateOutOfPlaneWith in which y does not enter vy
propagateOutOfPlaneWithUncoupledRate(initial, rho0, rhoT, cosDelta, sinDelta) ==
  LET factor == Div(One, Div(rhoT, rho0))
      y == Mul(factor, Add(Mul(cosDelta, initial.y), Mul(sinDelta, initial.vy)))
      vy == Mul(factor, Mul(cosDelta, initial.vy))
  IN  [y |-> y, vy |-> vy]

propagateOutOfPlaneWith(initial, rho0, rhoT, cosDelta, sinDelta) ==
  LET factor == Div(One, Div(rhoT, rho0))
      y == Mul(factor, Add(Mul(cosDelta, initial.y), Mul(sinDelta, initial.vy)))
      vy == Mul(factor, Add(Mul(Neg(sinDelta), initial.y),
                            Mul(cosDelta, initial.vy)))
  IN  [y |-> y, vy |-> vy]

propagateOutOfPlane(initial, e, theta0, theta) ==
  propagateOutOfPlaneWith(initial, rho(e, theta0), rho(e, theta),
                          MathCos(Sub(theta, theta0)),
                          MathSin(Sub(theta, theta0)))

---------------------------------------------------------------------------
(* Top-level propagators                                                   *)

\* a thrown Error: its message, and the offending value where the message
\* quotes one
Thrown(message, got) == [error |-> message, got |-> got]

IsThrown(r) == "error" \in DOMAIN r

\* the variant of eccentricityRejected that lets the parabola through
eccentricityRejectedAboveOne(e) == Less(e, Zero) \/ Greater(e, One)

\* the guard of propagateYA: e < 0 || e >= 1
\* the variant of eccentricityRejected without the upper bound
eccentricityRejectedBelowZero(e) == Less(e, Zero)

eccentricityRejected(e) == Less(e, Zero) \/ GreaterEq(e, One)

\* the in-plane and out-of-plane parts of a modified state, and the modified
\* state assembled from the two propagated parts
InPlaneOf(state) == [x |-> state.position[1], z |-> state.position[3],
                     vx |-> state.velocity[1], vz |-> state.velocity[3]]

OutOfPlaneOf(state) == [y |-> state.position[2], vy |-> state.velocity[2]]

ModifiedOf(inPlane, outOfPlane) ==
  [position |-> <<inPlane.x, outOfPlane.y, inPlane.z>>,
   velocity |-> <<inPlane.vx, outOfPlane.vy, inPlane.vz>>]

\* the variant of propagateYA whose out-of-plane part is read from the
\* radial components of the modified state
propagateYARadialOutOfPlane(initialState, elements, theta0, thetaF, deltaTime, frame) ==
  LET e == elements.eccentricity
      internalInitial == toInternalFromFrame(initialState, frame)
      modifiedInitial == toModifiedCoordinates(internalInitial, elements, theta0)
      JValue == J(elements, deltaTime)
      modifiedFinal(modified) ==
        ModifiedOf(
          propagateInPlane(
            computePseudoInitialInPlane(InPlaneOf(modified), e, theta0),
            e, thetaF, JValue),
          propagateOutOfPlane([y |-> modified.position[3],
                               vy |-> modified.velocity[3]],
                              e, theta0, thetaF))
  IN  IF eccentricityRejected(e)
      THEN Thrown("Eccentricity must be in range [0, 1)", e)
      ELSE fromInternalToFrame(
             fromModifiedCoordinates(modifiedFinal(modifiedInitial),
                                     elements, thetaF),
             frame)

propagateYA(initialState, elements, theta0, thetaF, deltaTime, frame) ==
  LET e == elements.eccentricity
      internalInitial == toInternalFromFrame(initialState, frame)
      modifiedInitial == toModifiedCoordinates(internalInitial, elements, theta0)
      JValue == J(elements, deltaTime)
      \* the two propagated parts of a modified state, put together again
      modifiedFinal(modified) ==
        ModifiedOf(
          propagateInPlane(
            computePseudoInitialInPlane(InPlaneOf(modified), e, theta0),
            e, thetaF, JValue),
          propagateOutOfPlane(OutOfPlaneOf(modified), e, theta0, thetaF))
  IN  IF eccentricityRejected(e)
      THEN Thrown("Eccentricity must be in range [0, 1)", e)
      ELSE fromInternalToFrame(
             fromModifiedCoordinates(modifiedFinal(modifiedInitial),
                                     elements, thetaF),
             frame)

\* the variant of propagateHCWWith that leaves the in-plane components as
\* they are and has +n*sin(nt)*y0 in the cross-track velocity
propagateHCWWithUnsignedCrossTrack(internalInitial, n, nt, sinNt, cosNt) ==
  [position |->
     <<internalInitial.position[1],
       Add(Mul(cosNt, internalInitial.position[2]),
           Prod(<<Div(One, n), sinNt, internalInitial.velocity[2]>>)),
       internalInitial.position[3]>>,
   velocity |->
     <<internalInitial.velocity[1],
       Add(Prod(<<n, sinNt, internalInitial.position[2]>>),
           Mul(cosNt, internalInitial.velocity[2])),
       internalInitial.velocity[3]>>]

propagateHCWWith(internalInitial, n, nt, sinNt, cosNt) ==
  LET x0 == internalInitial.position[1]
      y0 == internalInitial.position[2]
      z0 == internalInitial.position[3]
      vx0 == internalInitial.velocity[1]
      vy0 == internalInitial.velocity[2]
      vz0 == internalInitial.velocity[3]
      x == SumSeq(<<
             x0,
             Prod(<<Num(6), Sub(nt, sinNt), z0>>),
             Prod(<<Div(One, n),
                    Sub(Mul(Num(4), sinNt), Mul(Num(3), nt)), vx0>>),
             Prod(<<Div(Num(2), n), Sub(One, cosNt), vz0>>)>>)
      z == SumSeq(<<
             Mul(Sub(Num(4), Mul(Num(3), cosNt)), z0),
             Prod(<<Div(Num(2), n), Sub(cosNt, One), vx0>>),
             Prod(<<Div(One, n), sinNt, vz0>>)>>)
      vx == SumSeq(<<
             Prod(<<Num(6), n, Sub(One, cosNt), z0>>),
             Mul(Sub(Mul(Num(4), cosNt), Num(3)), vx0),
             Prod(<<Num(2), sinNt, vz0>>)>>)
      vz == SumSeq(<<
             Prod(<<Num(3), n, sinNt, z0>>),
             Prod(<<Num(-2), sinNt, vx0>>),
             Mul(cosNt, vz0)>>)
      y == Add(Mul(cosNt, y0), Prod(<<Div(One, n), sinNt, vy0>>))
      vy == Add(Prod(<<Neg(n), sinNt, y0>>), Mul(cosNt, vy0))
  IN  [position |-> <<x, y, z>>, velocity |-> <<vx, vy, vz>>]

\* the variant of propagateHCW that returns its result in the internal
\* ordering
propagateHCWInternalResult(initialState, orbitalRate, deltaTime, frame) ==
  propagateHCWWith(toInternalFromFrame(initialState, frame), orbitalRate,
                   Mul(orbitalRate, deltaTime),
                   MathSin(Mul(orbitalRate, deltaTime)),
                   MathCos(Mul(orbitalRate, deltaTime)))

\* the variant of propagateHCW that reads an [R, I, C] state as [C, R, I]
propagateHCWMisreadFrame(initialState, orbitalRate, deltaTime, frame) ==
  fromInternalToFrame(
    propagateHCWWith(toInternalFromFrameRotatedTwice(initialState, frame),
                     orbitalRate, Mul(orbitalRate, deltaTime),
                     MathSin(Mul(orbitalRate, deltaTime)),
                     MathCos(Mul(orbitalRate, deltaTime))),
    frame)

propagateHCW(initialState, orbitalRate, deltaTime, frame) ==
  fromInternalToFrame(
    propagateHCWWith(toInternalFromFrame(initialState, frame), orbitalRate,
                     Mul(orbitalRate, deltaTime),
                     MathSin(Mul(orbitalRate, deltaTime)),
                     MathCos(Mul(orbitalRate, deltaTime))),
    frame)

---------------------------------------------------------------------------
(* Kepler utilities                                                        *)

MaxIterations == 100

\* the variant of loopCondition that admits one more pass: i <= 100
loopConditionInclusive(i) == i <= MaxIterations

\* the loop condition of the Newton iteration: i < 100
loopCondition(i) == i < MaxIterations

\* the variant of newtonUpdate whose residual adds the mean anomaly
newtonUpdateWithAddedAnomaly(E, meanAnomaly, eccentricity) ==
  LET f == Add(Sub(E, Mul(eccentricity, MathSin(E))), meanAnomaly)
      fPrime == Sub(One, Mul(eccentricity, MathCos(E)))
      deltaE == Div(f, fPrime)
  IN  [E |-> Sub(E, deltaE), deltaE |-> deltaE]

\* one pass of the Newton loop body: the update deltaE and the new E
newtonUpdate(E, meanAnomaly, eccentricity) ==
  LET f == Sub(Sub(E, Mul(eccentricity, MathSin(E))), meanAnomaly)
      fPrime == Sub(One, Mul(eccentricity, MathCos(E)))
      deltaE == Div(f, fPrime)
  IN  [E |-> Sub(E, deltaE), deltaE |-> deltaE]

\* the default tolerance 1e-10, written as the power of ten 10^-10: it is
\* positive and below every non-zero rational the model holds
DefaultTolerance == <<1, 0, 0, -10>>

\* the outcomes of Math.abs(deltaE) < tolerance; when the update is a real
\* number the model cannot represent, either outcome is possible
belowTolerance(deltaE, tolerance) ==
  IF tolerance = DefaultTolerance /\ Comparable(deltaE)
  THEN {deltaE = Zero}
  ELSE IF Comparable(deltaE) /\ Comparable(tolerance)
  THEN {Less(MathAbs(deltaE), tolerance)}
  ELSE BOOLEAN

\* the factor of the conversion: sqrt((1 + e)/(1 - e))
apsidalFactor(eccentricity) ==
  MathSqrt(Div(Add(One, eccentricity), Sub(One, eccentricity)))

\* the variant of eccentricToTrue without the doubling of the arctangent
eccentricToTrueUndoubled(E, eccentricity) ==
  MathAtan(Mul(apsidalFactor(eccentricity), MathTan(Div(E, Num(2)))))

\* the variant of eccentricToTrue that returns E as it is on a circular
\* orbit
eccentricToTrueCircularAsIs(E, eccentricity) ==
  IF eccentricity = Zero THEN E
  ELSE Mul(Num(2),
           MathAtan(Mul(apsidalFactor(eccentricity), MathTan(Div(E, Num(2))))))

\* the conversion of the eccentric anomaly to the true anomaly
eccentricToTrue(E, eccentricity) ==
  Mul(Num(2),
      MathAtan(Mul(MathSqrt(Div(Add(One, eccentricity),
                                Sub(One, eccentricity))),
                   MathTan(Div(E, Num(2))))))

\* the values E can have after the loop, entered with counter i and
\* iterate E; a pass that leaves E as it is can only be followed by passes
\* that leave it as it is, so that E is then the value after the loop
RECURSIVE newtonSolve(_, _, _, _, _)
newtonSolve(i, E, meanAnomaly, eccentricity, tolerance) ==
  IF ~loopCondition(i) THEN {E}
  ELSE IF newtonUpdate(E, meanAnomaly, eccentricity).E = E THEN {E}
  ELSE UNION {IF below
              THEN {newtonUpdate(E, meanAnomaly, eccentricity).E}
              ELSE newtonSolve(i + 1,
                               newtonUpdate(E, meanAnomaly, eccentricity).E,
                               meanAnomaly, eccentricity, tolerance) :
              below \in belowTolerance(
                          newtonUpdate(E, meanAnomaly, eccentricity).deltaE,
                          tolerance)}

\* the values trueAnomalyFromMean can return (one value, unless a
\* comparison with the tolerance is left open)
trueAnomalyFromMean(meanAnomaly, eccentricity, tolerance) ==
  {eccentricToTrue(E, eccentricity) :
     E \in newtonSolve(0, meanAnomaly, meanAnomaly, eccentricity, tolerance)}

\* the mean motion n = sqrt(mu / a^3), with a = h^2 / (mu * (1 - e^2))
meanMotion(elements) ==
  LET a == Div(Mul(elements.angularMomentum, elements.angularMomentum),
               Mul(elements.gravitationalParameter,
                   Sub(One, Mul(elements.eccentricity,
                                elements.eccentricity))))
  IN  MathSqrt(Div(elements.gravitationalParameter, Mul(Mul(a, a), a)))

\* the variant of trueAnomalyAtTimeWith that starts from the periapsis,
\* whatever the initial anomaly
trueAnomalyAtTimeWithPeriapsisStart(e, n, theta0, E0, deltaTime) ==
  trueAnomalyFromMean(Mul(n, deltaTime), e, DefaultTolerance)

\* trueAnomalyAtTime after the mean motion n and the initial eccentric
\* anomaly E0: M0, Mf and the solve
trueAnomalyAtTimeWith(e, n, theta0, E0, deltaTime) ==
  trueAnomalyFromMean(
    Add(Sub(E0, Mul(e, MathSin(E0))), Mul(n, deltaTime)),
    e, DefaultTolerance)

\* the variant of trueAnomalyAtTime that adds the change of the mean anomaly
\* to theta0 and returns the sum as it is
trueAnomalyAtTimeUnwrapped(elements, theta0, deltaTime) ==
  {Add(theta0, Mul(meanMotion(elements), deltaTime))}

\* the values trueAnomalyAtTime can return
trueAnomalyAtTime(elements, theta0, deltaTime) ==
  trueAnomalyAtTimeWith(
    elements.eccentricity, meanMotion(elements), theta0,
    Mul(Num(2),
        MathAtan(Mul(MathSqrt(Div(Sub(One, elements.eccentricity),
                                  Add(One, elements.eccentricity))),
                     MathTan(Div(theta0, Num(2)))))),
    deltaTime)

\* the variant of deriveAngularMomentum that accepts a zero mean motion
deriveAngularMomentumZeroAccepted(eccentricity, meanMotionRevPerDay, mu) ==
  IF ~(GreaterEq(eccentricity, Zero) /\ Less(eccentricity, One))
  THEN [error |-> "eccentricity must be in [0,1)."]
  ELSE IF ~GreaterEq(meanMotionRevPerDay, Zero)
  THEN [error |-> "meanMotionRevPerDay must be > 0."]
  ELSE LET nRadPerSec ==
             Div(Mul(Mul(meanMotionRevPerDay, Num(2)), MathPI), Num(86400))
           a == MathCbrt(Div(mu, Mul(nRadPerSec, nRadPerSec)))
       IN  [value |->
              MathSqrt(Mul(Mul(mu, a),
                           Sub(One, Mul(eccentricity, eccentricity))))]

deriveAngularMomentum(eccentricity, meanMotionRevPerDay, mu) ==
  IF ~(GreaterEq(eccentricity, Zero) /\ Less(eccentricity, One))
  THEN [error |-> "eccentricity must be in [0,1)."]
  ELSE IF ~Greater(meanMotionRevPerDay, Zero)
  THEN [error |-> "meanMotionRevPerDay must be > 0."]
  ELSE LET nRadPerSec ==
             Div(Mul(Mul(meanMotionRevPerDay, Num(2)), MathPI), Num(86400))
           a == MathCbrt(Div(mu, Mul(nRadPerSec, nRadPerSec)))
       IN  [value |->
              MathSqrt(Mul(Mul(mu, a),
                           Sub(One, Mul(eccentricity, eccentricity))))]

---------------------------------------------------------------------------
(* Inputs                                                                  *)

\* largest magnitude of an input position or velocity component
MaxCoord == 1
\* largest magnitude of an input elapsed time
MaxTime == 1

Frames == {"RIC", "LVLH"}

Coords == 0..MaxCoord

\* input states: the zero state, the states with one component set, and two
\* states with every component set, of either sign
SixTuples ==
  {[i \in 1..6 |-> IF i = k THEN v ELSE 0] : k \in 1..6, v \in Coords}
    \cup {<<1, -1, 2, 1, 2, -1>>, <<2, 1, -1, -1, 1, 1>>}

StateOf(t) == [position |-> <<Num(t[1]), Num(t[2]), Num(t[3])>>,
               velocity |-> <<Num(t[4]), Num(t[5]), Num(t[6])>>]

States == {StateOf(t) : t \in SixTuples}

ZeroState == [position |-> <<Zero, Zero, Zero>>,
              velocity |-> <<Zero, Zero, Zero>>]

ValidEccentricities == {Zero, Rat(1, 3)}
InvalidEccentricities == {Rat(-1, 2), One, Rat(3, 2)}
Eccentricities == ValidEccentricities \cup InvalidEccentricities

\* <<h, mu>>: h a perfect square, so that h^1.5 is rational
MomentumAndMu == {<<Num(1), Num(2)>>, <<Num(4), Num(2)>>}

Elements ==
  {[eccentricity |-> e, angularMomentum |-> hm[1],
    gravitationalParameter |-> hm[2]] :
     e \in Eccentricities, hm \in MomentumAndMu}

\* input anomalies: -alpha, 0, alpha and pi/2
Anomalies == {Alpha(-1), Zero, Alpha(1), HalfPi(1)}

Times == {Num(t) : t \in (-MaxTime)..MaxTime}

Inputs ==
  [state : States, elements : Elements, theta0 : Anomalies,
   thetaF : Anomalies, deltaTime : Times, frame : Frames]

\* mean motion of the circular orbit as the callers compute it: mu^2 / h^3
CircularRate(elements) ==
  LET mu == elements.gravitationalParameter
      h == elements.angularMomentum
  IN  Div(Mul(mu, mu), Mul(Mul(h, h), h))

\* elapsed time consistent with the anomaly change on a circular orbit
CircularTime(i) == Div(Sub(i.thetaF, i.theta0), CircularRate(i.elements))

---------------------------------------------------------------------------
(* Calls                                                                   *)
(* Each action is one call of a public function on the inputs chosen       *)
(* initially, or on the result of the preceding call.  pc names the last   *)
(* call, out holds its result and mid the result of the call before it.    *)

Nothing == <<>>

Init == /\ inp \in Inputs
        /\ pc = "start"
        /\ mid = Nothing
        /\ out = Nothing

Call(from, to, result) ==
  /\ pc = from
  /\ pc' = to
  /\ mid' = out
  /\ out' = result
  /\ UNCHANGED inp

DoToInternal ==
  Call("start", "toInternal", toInternalFromFrame(inp.state, inp.frame))

DoFromInternalBack ==
  Call("toInternal", "toInternal.fromInternal",
       fromInternalToFrame(out, inp.frame))

DoFromInternal ==
  Call("start", "fromInternal", fromInternalToFrame(inp.state, inp.frame))

DoToInternalBack ==
  Call("fromInternal", "fromInternal.toInternal",
       toInternalFromFrame(out, inp.frame))

NextFrames ==
  \/ DoToInternal
  \/ DoFromInternalBack
  \/ DoFromInternal
  \/ DoToInternalBack

DoToModified ==
  Call("start", "toModified",
       toModifiedCoordinates(inp.state, inp.elements, inp.theta0))

DoFromModifiedBack ==
  Call("toModified", "toModified.fromModified",
       fromModifiedCoordinates(out, inp.elements, inp.theta0))

DoFromModified ==
  Call("start", "fromModified",
       fromModifiedCoordinates(inp.state, inp.elements, inp.theta0))

DoPseudoInitial ==
  Call("start", "pseudoInitial",
       computePseudoInitialInPlane(InPlaneOf(inp.state),
                                   inp.elements.eccentricity, inp.theta0))

\* from the pseudo-initial state, the transition at the same anomaly with
\* no drift
DoInPlaneAtInitial ==
  Call("pseudoInitial", "pseudoInitial.inPlane",
       propagateInPlane(out, inp.elements.eccentricity, inp.theta0, Zero))

DoInPlane ==
  Call("start", "inPlane",
       propagateInPlane(InPlaneOf(inp.state), inp.elements.eccentricity,
                        inp.thetaF, J(inp.elements, inp.deltaTime)))

DoOutOfPlane ==
  Call("start", "outOfPlane",
       propagateOutOfPlane(OutOfPlaneOf(inp.state),
                           inp.elements.eccentricity, inp.theta0, inp.thetaF))

DoOutOfPlaneBack ==
  Call("outOfPlane", "outOfPlane.back",
       propagateOutOfPlane(out, inp.elements.eccentricity,
                           inp.thetaF, inp.theta0))

NextStages ==
  \/ DoToModified
  \/ DoFromModifiedBack
  \/ DoFromModified
  \/ DoPseudoInitial
  \/ DoInPlaneAtInitial
  \/ DoInPlane
  \/ DoOutOfPlane
  \/ DoOutOfPlaneBack

DoYA ==
  Call("start", "propagateYA",
       propagateYA(inp.state, inp.elements, inp.theta0, inp.thetaF,
                   inp.deltaTime, inp.frame))

\* the reverse call needs the forward result: it follows a call that returned
DoYABack ==
  /\ ~IsThrown(out)
  /\ Call("propagateYA", "propagateYA.back",
          propagateYA(out, inp.elements, inp.thetaF, inp.theta0,
                      Neg(inp.deltaTime), inp.frame))

\* the comparison of the two propagators is made on a circular orbit
DoYACircular ==
  /\ inp.elements.eccentricity = Zero
  /\ Call("start", "propagateYA.circular",
       propagateYA(inp.state, inp.elements, inp.theta0, inp.thetaF,
                   CircularTime(inp), inp.frame))

DoHCWCircular ==
  Call("propagateYA.circular", "propagateHCW.circular",
       propagateHCW(inp.state, CircularRate(inp.elements),
                    CircularTime(inp), inp.frame))

NextPropagators ==
  \/ DoYA
  \/ DoYABack

NextCircular ==
  \/ DoYACircular
  \/ DoHCWCircular

SpecPropagators == Init /\ [][NextPropagators]_vars

\* the circular comparison takes its elapsed time from the anomalies: the
\* elapsed time of the inputs plays no part in it
InitCircular == /\ Init
                /\ inp.elements.eccentricity = Zero
                /\ inp.deltaTime = Zero

SpecCircular == InitCircular /\ [][NextCircular]_vars

Next == NextFrames \/ NextStages \/ NextPropagators \/ NextCircular

Spec == Init /\ [][Next]_vars

\* every call, on the all-zero state
InitOrigin == Init /\ inp.state = ZeroState

SpecOrigin == InitOrigin /\ [][Next]_vars

SpecFrames == Init /\ [][NextFrames]_vars

SpecStages == Init /\ [][NextStages]_vars

\* the state given in RIC as [R, I, C], written in LVLH as [I, C, R]
LVLHFromRIC(state) ==
  [position |-> <<state.position[2], state.position[3], state.position[1]>>,
   velocity |-> <<state.velocity[2], state.velocity[3], state.velocity[1]>>]

\* the same propagation, of a state given in RIC and then of the same
\* physical state given in LVLH
DoYAInRIC ==
  Call("start", "propagateYA.RIC",
       propagateYA(inp.state, inp.elements, inp.theta0, inp.thetaF,
                   inp.deltaTime, "RIC"))

DoYAInLVLH ==
  Call("propagateYA.RIC", "propagateYA.LVLH",
       propagateYA(LVLHFromRIC(inp.state), inp.elements, inp.theta0,
                   inp.thetaF, inp.deltaTime, "LVLH"))

DoHCWInRIC ==
  Call("start", "propagateHCW.RIC",
       propagateHCW(inp.state, CircularRate(inp.elements),
                    CircularTime(inp), "RIC"))

DoHCWInLVLH ==
  Call("propagateHCW.RIC", "propagateHCW.LVLH",
       propagateHCW(LVLHFromRIC(inp.state), CircularRate(inp.elements),
                    CircularTime(inp), "LVLH"))

NextBothFrames ==
  \/ DoYAInRIC
  \/ DoYAInLVLH
  \/ DoHCWInRIC
  \/ DoHCWInLVLH

\* the frame is an argument of each call here, not an input
InitBothFrames == Init /\ inp.frame = "RIC"

SpecBothFrames == InitBothFrames /\ [][NextBothFrames]_vars

\* propagateHCW forward over deltaTime, then backward over -deltaTime
DoHCW ==
  Call("start", "propagateHCW",
       propagateHCW(inp.state, CircularRate(inp.elements),
                    CircularTime(inp), inp.frame))

DoHCWBack ==
  Call("propagateHCW", "propagateHCW.back",
       propagateHCW(out, CircularRate(inp.elements),
                    Neg(CircularTime(inp)), inp.frame))

NextHCW ==
  \/ DoHCW
  \/ DoHCWBack

SpecHCW == InitCircular /\ [][NextHCW]_vars

\* the out-of-plane state of the quarter-period case: y0 = 100, vy0 = 0
QuarterPeriodState == StateOf(<<0, 100, 0, 0, 0, 0>>)

\* calls of propagateOutOfPlane alone: only the out-of-plane part of the
\* state, the eccentricity and the two anomalies are arguments
InitOutOfPlane ==
  /\ inp \in [state : States \cup {QuarterPeriodState}, elements : Elements,
               theta0 : Anomalies, thetaF : Anomalies, deltaTime : {Zero},
               frame : {"LVLH"}]
  /\ pc = "start"
  /\ mid = Nothing
  /\ out = Nothing

NextOutOfPlane ==
  \/ DoOutOfPlane
  \/ DoOutOfPlaneBack

SpecOutOfPlane == InitOutOfPlane /\ [][NextOutOfPlane]_vars

---------------------------------------------------------------------------
(* Calls of the Kepler utilities                                           *)
(* trueAnomalyFromMean runs as a loop: mid holds the loop counter i, the   *)
(* iterate E, the last update deltaE, whether that update was below the    *)
(* tolerance, and the number of updates made so far.                       *)

\* mean anomalies within [-pi, pi] and outside it
MeanAnomalies ==
  Anomalies \cup {MathPI, Num(1), HalfPi(-3), HalfPi(-2), HalfPi(3), HalfPi(4)}

Tolerances == {DefaultTolerance, Rat(1, 1000), Num(10), Zero, Num(-1), NaN}

MeanMotions == {Num(-5), Zero, Num(15), NaN}

DeriveInputs ==
  [eccentricity : Eccentricities \cup {NaN},
   meanMotionRevPerDay : MeanMotions, mu : {Num(1), Num(2), Num(8)}]

\* 3/5 and 0 are eccentricities whose conversion factor is rational
NewtonEccentricities == Eccentricities \cup {Rat(3, 5), NaN}

NewtonInputs ==
  [meanAnomaly : MeanAnomalies, eccentricity : NewtonEccentricities,
   tolerance : Tolerances]

InitDerive == /\ inp \in DeriveInputs
              /\ pc = "start"
              /\ mid = Nothing
              /\ out = Nothing

InitNewton == /\ inp \in NewtonInputs
              /\ pc = "start"
              /\ mid = Nothing
              /\ out = Nothing

DoDeriveAngularMomentum ==
  Call("start", "deriveAngularMomentum",
       deriveAngularMomentum(inp.eccentricity, inp.meanMotionRevPerDay,
                             inp.mu))

\* let E = meanAnomaly; i = 0
NewtonStart ==
  /\ pc = "start"
  /\ pc' = "newton"
  /\ mid' = [i |-> 0, E |-> inp.meanAnomaly, deltaE |-> NaN,
             below |-> FALSE, updates |-> 0]
  /\ UNCHANGED <<inp, out>>

\* one pass of the loop body: update E, then break or i++
NewtonIterate ==
  /\ pc = "newton"
  /\ loopCondition(mid.i)
  /\ LET u == newtonUpdate(mid.E, inp.meanAnomaly, inp.eccentricity)
     IN  \E below \in belowTolerance(u.deltaE, inp.tolerance) :
           /\ mid' = [i |-> IF below THEN mid.i ELSE mid.i + 1,
                      E |-> u.E, deltaE |-> u.deltaE, below |-> below,
                      updates |-> mid.updates + 1]
           /\ pc' = IF below THEN "exit" ELSE "newton"
  /\ UNCHANGED <<inp, out>>

\* the loop condition fails: the loop ends without a break
NewtonCapReached ==
  /\ pc = "newton"
  /\ ~loopCondition(mid.i)
  /\ pc' = "exit"
  /\ UNCHANGED <<inp, mid, out>>

\* after the loop: convert the last iterate and return
NewtonReturn ==
  /\ pc = "exit"
  /\ pc' = "trueAnomalyFromMean"
  /\ out' = [value |-> eccentricToTrue(mid.E, inp.eccentricity)]
  /\ UNCHANGED <<inp, mid>>

SpecDerive == InitDerive /\ [][DoDeriveAngularMomentum]_vars

NextNewton ==
  \/ NewtonStart
  \/ NewtonIterate
  \/ NewtonCapReached
  \/ NewtonReturn

SpecNewton == InitNewton /\ [][NextNewton]_vars

\* elements of trueAnomalyAtTime: circular orbits, and e = 3/5, for which
\* the mean motion and the conversion factors are rational
AtTimeElements ==
  {[eccentricity |-> Zero, angularMomentum |-> Num(1),
    gravitationalParameter |-> Num(2)],
   [eccentricity |-> Zero, angularMomentum |-> Num(4),
    gravitationalParameter |-> Num(2)],
   [eccentricity |-> Rat(3, 5), angularMomentum |-> Num(1),
    gravitationalParameter |-> Num(1)]}

\* initial anomalies within [-pi, pi] and outside it
AtTimeAnomalies ==
  {HalfPi(-3), HalfPi(-2), HalfPi(-1), Alpha(-1), Zero, Alpha(1), HalfPi(1),
   HalfPi(2), HalfPi(3), HalfPi(4), Add(HalfPi(4), Alpha(1)), HalfPi(6)}

\* n * deltaTime: the change of the mean anomaly
AtTimeAdvances == {Alpha(-1), Zero, Alpha(1), HalfPi(1)}

AtTimeInputs ==
  {[elements |-> el, theta0 |-> theta, deltaTime |-> Div(d, meanMotion(el))] :
     el \in AtTimeElements, theta \in AtTimeAnomalies, d \in AtTimeAdvances}

InitAtTime == /\ inp \in AtTimeInputs
              /\ pc = "start"
              /\ mid = Nothing
              /\ out = Nothing

DoAtTime ==
  \E theta \in trueAnomalyAtTime(inp.elements, inp.theta0, inp.deltaTime) :
    Call("start", "trueAnomalyAtTime", [value |-> theta])

\* from the anomaly reached, back over -deltaTime
DoAtTimeBack ==
  /\ pc = "trueAnomalyAtTime"
  /\ \E theta \in trueAnomalyAtTime(inp.elements, out.value,
                                     Neg(inp.deltaTime)) :
       Call("trueAnomalyAtTime", "trueAnomalyAtTime.back", [value |-> theta])

NextAtTime ==
  \/ DoAtTime
  \/ DoAtTimeBack

SpecAtTime == InitAtTime /\ [][NextAtTime]_vars

\* calls of propagateYA and of deriveAngularMomentum with the same
\* eccentricity, among them a not-a-number
ValidationInputs ==
  [state : States,
   elements : [eccentricity : Eccentricities \cup {NaN},
               angularMomentum : {Num(1), Num(4)},
               gravitationalParameter : {Num(2)}],
   theta0 : {Alpha(1)}, thetaF : Anomalies, deltaTime : {Num(1)},
   frame : Frames, meanMotionRevPerDay : MeanMotions]

InitValidation == /\ inp \in ValidationInputs
                  /\ pc = "start"
                  /\ mid = Nothing
                  /\ out = Nothing

DoValidateYA ==
  Call("start", "validate.propagateYA",
       propagateYA(inp.state, inp.elements, inp.theta0, inp.thetaF,
                   inp.deltaTime, inp.frame))

DoValidateDerive ==
  Call("validate.propagateYA", "validate.deriveAngularMomentum",
       deriveAngularMomentum(inp.elements.eccentricity,
                             inp.meanMotionRevPerDay,
                             inp.elements.gravitationalParameter))

NextValidation ==
  \/ DoValidateYA
  \/ DoValidateDerive

SpecValidation == InitValidation /\ [][NextValidation]_vars

---------------------------------------------------------------------------
(* The calls, statement by statement                                       *)
(* propagateYA and deriveAngularMomentum run as the sequence of their      *)
(* statements.  mid holds the locals assigned so far, each under its name, *)
(* and under "steps" the names in the order of assignment; pc names the    *)
(* statement executed last.                                                *)

NoLocals == [steps |-> <<>>]

\* const name = value
Assigned(locals, name, value) ==
  ("steps" :> Append(locals.steps, name)) @@ (name :> value) @@ locals

Statement(from, to, name, value) ==
  /\ pc = from
  /\ pc' = to
  /\ mid' = Assigned(mid, name, value)
  /\ UNCHANGED <<inp, out>>

IsYAInput == "state" \in DOMAIN inp

\* the variant of YAValidate in which the frame conversion is made first
YAValidateAfterConversion ==
  /\ pc = "start"
  /\ IsYAInput
  /\ mid' = Assigned(NoLocals, "internalInitial",
                     toInternalFromFrame(inp.state, inp.frame))
  /\ IF eccentricityRejected(inp.elements.eccentricity)
     THEN /\ pc' = "ya.thrown"
          /\ out' = Thrown("Eccentricity must be in range [0, 1)",
                           inp.elements.eccentricity)
     ELSE /\ pc' = "ya.validated"
          /\ out' = out
  /\ UNCHANGED inp

\* if (e < 0 || e >= 1) throw
YAValidate ==
  /\ pc = "start"
  /\ IsYAInput
  /\ mid' = NoLocals
  /\ IF eccentricityRejected(inp.elements.eccentricity)
     THEN /\ pc' = "ya.thrown"
          /\ out' = Thrown("Eccentricity must be in range [0, 1)",
                           inp.elements.eccentricity)
     ELSE /\ pc' = "ya.validated"
          /\ out' = out
  /\ UNCHANGED inp

YAToInternal ==
  Statement("ya.validated", "ya.internalInitial", "internalInitial",
            toInternalFromFrame(inp.state, inp.frame))

YAToModified ==
  Statement("ya.internalInitial", "ya.modifiedInitial", "modifiedInitial",
            toModifiedCoordinates(mid.internalInitial, inp.elements,
                                  inp.theta0))

YAComputeJ ==
  Statement("ya.modifiedInitial", "ya.JValue", "JValue",
            J(inp.elements, inp.deltaTime))

YAInPlaneInitial ==
  Statement("ya.JValue", "ya.inPlaneInitial", "inPlaneInitial",
            InPlaneOf(mid.modifiedInitial))

YAPseudoInitial ==
  Statement("ya.inPlaneInitial", "ya.pseudoInPlane", "pseudoInPlane",
            computePseudoInitialInPlane(mid.inPlaneInitial,
                                        inp.elements.eccentricity,
                                        inp.theta0))

YAInPlane ==
  Statement("ya.pseudoInPlane", "ya.finalInPlane", "finalInPlane",
            propagateInPlane(mid.pseudoInPlane, inp.elements.eccentricity,
                             inp.thetaF, mid.JValue))

YAOutOfPlaneInitial ==
  Statement("ya.finalInPlane", "ya.outOfPlaneInitial", "outOfPlaneInitial",
            OutOfPlaneOf(mid.modifiedInitial))

YAOutOfPlane ==
  Statement("ya.outOfPlaneInitial", "ya.finalOutOfPlane", "finalOutOfPlane",
            propagateOutOfPlane(mid.outOfPlaneInitial,
                                inp.elements.eccentricity,
                                inp.theta0, inp.thetaF))

YACombine ==
  Statement("ya.finalOutOfPlane", "ya.modifiedFinal", "modifiedFinal",
            ModifiedOf(mid.finalInPlane, mid.finalOutOfPlane))

\* the variant of YAFromModified that transforms back at the initial anomaly
YAFromModifiedAtInitialAnomaly ==
  Statement("ya.modifiedFinal", "ya.finalTrueInternal", "finalTrueInternal",
            fromModifiedCoordinates(mid.modifiedFinal, inp.elements,
                                    inp.theta0))

YAFromModified ==
  Statement("ya.modifiedFinal", "ya.finalTrueInternal", "finalTrueInternal",
            fromModifiedCoordinates(mid.modifiedFinal, inp.elements,
                                    inp.thetaF))

\* return fromInternalToFrame(finalTrueInternal, frame)
YAReturn ==
  /\ pc = "ya.finalTrueInternal"
  /\ pc' = "ya.returned"
  /\ out' = fromInternalToFrame(mid.finalTrueInternal, inp.frame)
  /\ UNCHANGED <<inp, mid>>

NextYAStatements ==
  \/ YAValidate
  \/ YAToInternal
  \/ YAToModified
  \/ YAComputeJ
  \/ YAInPlaneInitial
  \/ YAPseudoInitial
  \/ YAInPlane
  \/ YAOutOfPlaneInitial
  \/ YAOutOfPlane
  \/ YACombine
  \/ YAFromModified
  \/ YAReturn

IsDeriveInput == "meanMotionRevPerDay" \in DOMAIN inp

\* the variant of DeriveCheckEccentricity in which the mean motion is tested
\* before the eccentricity
DeriveCheckMeanMotionFirst ==
  /\ pc = "start"
  /\ IsDeriveInput
  /\ mid' = NoLocals
  /\ IF ~Greater(inp.meanMotionRevPerDay, Zero)
     THEN /\ pc' = "derive.thrown"
          /\ out' = [error |-> "meanMotionRevPerDay must be > 0."]
     ELSE IF ~(GreaterEq(inp.eccentricity, Zero) /\ Less(inp.eccentricity, One))
     THEN /\ pc' = "derive.thrown"
          /\ out' = [error |-> "eccentricity must be in [0,1)."]
     ELSE /\ pc' = "derive.eccentricityChecked"
          /\ out' = out
  /\ UNCHANGED inp

\* if (!(eccentricity >= 0 && eccentricity < 1)) throw
DeriveCheckEccentricity ==
  /\ pc = "start"
  /\ IsDeriveInput
  /\ mid' = NoLocals
  /\ IF ~(GreaterEq(inp.eccentricity, Zero) /\ Less(inp.eccentricity, One))
     THEN /\ pc' = "derive.thrown"
          /\ out' = [error |-> "eccentricity must be in [0,1)."]
     ELSE /\ pc' = "derive.eccentricityChecked"
          /\ out' = out
  /\ UNCHANGED inp

\* if (!(meanMotionRevPerDay > 0)) throw
DeriveCheckMeanMotion ==
  /\ pc = "derive.eccentricityChecked"
  /\ IF ~Greater(inp.meanMotionRevPerDay, Zero)
     THEN /\ pc' = "derive.thrown"
          /\ out' = [error |-> "meanMotionRevPerDay must be > 0."]
     ELSE /\ pc' = "derive.validated"
          /\ out' = out
  /\ UNCHANGED <<inp, mid>>

DeriveRate ==
  Statement("derive.validated", "derive.nRadPerSec", "nRadPerSec",
            Div(Mul(Mul(inp.meanMotionRevPerDay, Num(2)), MathPI),
                Num(86400)))

DeriveAxis ==
  Statement("derive.nRadPerSec", "derive.a", "a",
            MathCbrt(Div(inp.mu, Mul(mid.nRadPerSec, mid.nRadPerSec))))

\* return Math.sqrt(mu * a * (1 - eccentricity * eccentricity))
DeriveReturn ==
  /\ pc = "derive.a"
  /\ pc' = "derive.returned"
  /\ out' = [value |->
               MathSqrt(Mul(Mul(inp.mu, mid.a),
                            Sub(One, Mul(inp.eccentricity,
                                         inp.eccentricity))))]
  /\ UNCHANGED <<inp, mid>>

NextDeriveStatements ==
  \/ DeriveCheckEccentricity
  \/ DeriveCheckMeanMotion
  \/ DeriveRate
  \/ DeriveAxis
  \/ DeriveReturn

\* calls of propagateYA at anomalies that include the apsides, on orbits up
\* to e = 5/6, and with eccentricities the validation has to deal with
ApsidalAnomalies ==
  {HalfPi(-2), Alpha(-1), Zero, Alpha(1), HalfPi(1), HalfPi(2), HalfPi(3)}

ApsidalInputs ==
  [state : {ZeroState, StateOf(<<1, -1, 2, 1, 2, -1>>),
            StateOf(<<2, 1, -1, -1, 1, 1>>)},
   elements : [eccentricity : {Rat(-1, 2), Zero, Rat(1, 3), Rat(5, 6), One, NaN},
               angularMomentum : {Num(1), Num(4)},
               gravitationalParameter : {Num(2)}],
   theta0 : ApsidalAnomalies, thetaF : ApsidalAnomalies,
   deltaTime : {Num(-1), Num(1)}, frame : {"RIC"}]

InitApsidal == /\ inp \in ApsidalInputs
               /\ pc = "start"
               /\ mid = Nothing
               /\ out = Nothing

SpecApsidal == InitApsidal /\ [][NextYAStatements]_vars

\* a call of either function
InitStatements == /\ inp \in Inputs \cup DeriveInputs
                  /\ pc = "start"
                  /\ mid = Nothing
                  /\ out = Nothing

NextStatements == NextYAStatements \/ NextDeriveStatements

SpecStatements == InitStatements /\ [][NextStatements]_vars

---------------------------------------------------------------------------
(* Calls running concurrently                                              *)
(* Two callers each run one call of a public function, statement by        *)
(* statement, in any interleaving.  inp.heap holds the state objects the   *)
(* calls are given (two calls may be given the same object), inp.given     *)
(* what these objects held initially, inp.calls the arguments of each      *)
(* call; pc, mid and out hold, per caller, the position, the locals and    *)
(* the result.                                                             *)

Callers == 1..2

HeapStates == <<StateOf(<<1, -1, 2, 1, 2, -1>>), StateOf(<<2, 1, -1, -1, 1, 1>>)>>

ConcurrentCalls ==
  [op : {"propagateYA"}, state : 1..2,
   elements : {el \in Elements :
                 /\ el.eccentricity \in {Zero, Rat(1, 3), One}
                 /\ el.angularMomentum = Num(1)},
   theta0 : {Alpha(1)}, thetaF : {HalfPi(1)}, deltaTime : {Num(1)},
   frame : Frames]
  \cup [op : {"toInternalFromFrame", "fromInternalToFrame"}, state : 1..2,
        frame : Frames]
  \cup [op : {"trueAnomalyFromMean"}, meanAnomaly : {MathPI},
        eccentricity : {Zero, Rat(3, 5)}, tolerance : {Rat(1, 1000), Zero}]

YAStatements ==
  <<"internalInitial", "modifiedInitial", "JValue", "inPlaneInitial",
    "pseudoInPlane", "finalInPlane", "outOfPlaneInitial", "finalOutOfPlane",
    "modifiedFinal", "finalTrueInternal">>

\* the value a statement of propagateYA assigns to its local
YAValue(name, call, initialState, locals) ==
  CASE name = "internalInitial" ->
         toInternalFromFrame(initialState, call.frame)
    [] name = "modifiedInitial" ->
         toModifiedCoordinates(locals.internalInitial, call.elements,
                               call.theta0)
    [] name = "JValue" -> J(call.elements, call.deltaTime)
    [] name = "inPlaneInitial" -> InPlaneOf(locals.modifiedInitial)
    [] name = "pseudoInPlane" ->
         computePseudoInitialInPlane(locals.inPlaneInitial,
                                     call.elements.eccentricity, call.theta0)
    [] name = "finalInPlane" ->
         propagateInPlane(locals.pseudoInPlane, call.elements.eccentricity,
                          call.thetaF, locals.JValue)
    [] name = "outOfPlaneInitial" -> OutOfPlaneOf(locals.modifiedInitial)
    [] name = "finalOutOfPlane" ->
         propagateOutOfPlane(locals.outOfPlaneInitial,
                             call.elements.eccentricity,
                             call.theta0, call.thetaF)
    [] name = "modifiedFinal" ->
         ModifiedOf(locals.finalInPlane, locals.finalOutOfPlane)
    [] name = "finalTrueInternal" ->
         fromModifiedCoordinates(locals.modifiedFinal, call.elements,
                                 call.thetaF)

\* the state of a caller and of the heap after the caller's next statement
After(at, locals, result, heap) ==
  [pc |-> at, mid |-> locals, out |-> result, heap |-> heap]

\* the heap after a frame conversion of the state object of a call
HeapAfterConversion(call, heap) ==
  [heap EXCEPT ![call.state] = inputStateAfter(@, call.frame)]

AdvanceYA(call, at, locals, heap) ==
  IF at = "start"
  THEN IF eccentricityRejected(call.elements.eccentricity)
       THEN {After("thrown", locals,
                   Thrown("Eccentricity must be in range [0, 1)",
                          call.elements.eccentricity), heap)}
       ELSE {After("running", locals, Nothing, heap)}
  ELSE IF Len(locals.steps) < Len(YAStatements)
  THEN {After("running",
              Assigned(locals, YAStatements[Len(locals.steps) + 1],
                       YAValue(YAStatements[Len(locals.steps) + 1], call,
                               heap[call.state], locals)),
              Nothing,
              IF Len(locals.steps) = 0 THEN HeapAfterConversion(call, heap)
              ELSE heap)}
  ELSE {After("returned", locals,
              fromInternalToFrame(locals.finalTrueInternal, call.frame),
              heap)}

AdvanceFrame(call, at, locals, heap) ==
  {After("returned", locals,
         IF call.op = "toInternalFromFrame"
         THEN toInternalFromFrame(heap[call.state], call.frame)
         ELSE fromInternalToFrame(heap[call.state], call.frame),
         HeapAfterConversion(call, heap))}

\* the locals of trueAnomalyFromMean: E under "E", the loop counter under
\* "i"
AdvanceNewton(call, at, locals, heap) ==
  IF at = "start"
  THEN {After("running", [steps |-> <<"E">>, E |-> call.meanAnomaly, i |-> 0],
              Nothing, heap)}
  ELSE IF at = "running" /\ loopCondition(locals.i)
  THEN {After(IF below THEN "exit" ELSE "running",
              [locals EXCEPT
                 !.E = newtonUpdate(@, call.meanAnomaly, call.eccentricity).E,
                 !.i = IF below THEN @ ELSE @ + 1],
              Nothing, heap) :
          below \in belowTolerance(
                      newtonUpdate(locals.E, call.meanAnomaly,
                                   call.eccentricity).deltaE,
                      call.tolerance)}
  ELSE {After("returned", locals, eccentricToTrue(locals.E, call.eccentricity),
              heap)}

Advance(call, at, locals, heap) ==
  IF call.op = "propagateYA" THEN AdvanceYA(call, at, locals, heap)
  ELSE IF call.op = "trueAnomalyFromMean"
       THEN AdvanceNewton(call, at, locals, heap)
  ELSE AdvanceFrame(call, at, locals, heap)

InitConcurrent ==
  /\ inp \in [given : {HeapStates}, heap : {HeapStates},
               calls : [Callers -> ConcurrentCalls]]
  /\ pc = [caller \in Callers |-> "start"]
  /\ mid = [caller \in Callers |-> NoLocals]
  /\ out = [caller \in Callers |-> Nothing]

\* the next statement of one caller's call
StepOf(caller) ==
  /\ pc[caller] \notin {"returned", "thrown"}
  /\ \E next \in Advance(inp.calls[caller], pc[caller], mid[caller], inp.heap) :
       /\ pc' = [pc EXCEPT ![caller] = next.pc]
       /\ mid' = [mid EXCEPT ![caller] = next.mid]
       /\ out' = [out EXCEPT ![caller] = next.out]
       /\ inp' = [inp EXCEPT !.heap = next.heap]

StepOfFirst == StepOf(1)

StepOfSecond == StepOf(2)

NextConcurrent ==
  \/ StepOfFirst
  \/ StepOfSecond

SpecConcurrent == InitConcurrent /\ [][NextConcurrent]_vars

---------------------------------------------------------------------------
(* Properties                                                              *)

\* 0 <= e < 1
InRange(e) == GreaterEq(e, Zero) /\ Less(e, One)

ZeroInPlane == [x |-> Zero, z |-> Zero, vx |-> Zero, vz |-> Zero]

ZeroOutOfPlane == [y |-> Zero, vy |-> Zero]

\* C1: on a circular orbit (e = 0), with n = mu^2/h^3 and
\* deltaTime = (thetaF - theta0)/n, propagateYA and propagateHCW return the
\* same state, component for component, for every initial state, both frames
\* and every pair of anomalies (thetaF before, at or after theta0).
CircularLimitEquivalence ==
  pc = "propagateHCW.circular" => out = mid

CircularLimitReached ==
  /\ pc = "propagateHCW.circular"
  /\ inp.elements.eccentricity = Zero
  /\ inp.theta0 = Alpha(1)
  /\ inp.thetaF = Alpha(-1)
  /\ inp.frame = "RIC"
  /\ inp.state = StateOf(<<1, -1, 2, 1, 2, -1>>)
  /\ out # inp.state
  /\ out.position[2][2] # 0

\* C2: propagateYA throws "Eccentricity must be in range [0, 1)" exactly
\* when the eccentricity is below 0 or at least 1, whatever the other
\* arguments; with 0 <= e < 1 it returns a state.
EccentricityValidation ==
  pc = "propagateYA" =>
    LET e == inp.elements.eccentricity
    IN  /\ (Less(e, Zero) \/ GreaterEq(e, One)) =>
              /\ IsThrown(out)
              /\ out.error = "Eccentricity must be in range [0, 1)"
        /\ InRange(e) => ~IsThrown(out)

EccentricityRejectedReached ==
  /\ pc = "propagateYA"
  /\ inp.elements.eccentricity = One
  /\ IsThrown(out)

\* C3: propagating from theta0 to thetaF over deltaTime and then from thetaF
\* back to theta0 over -deltaTime returns the initial state, for every
\* e in [0,1), state, frame and independently chosen theta0, thetaF, deltaTime.
ForwardBackwardYA ==
  (pc = "propagateYA.back" /\ InRange(inp.elements.eccentricity)) =>
    out = inp.state

ForwardBackwardYAReached ==
  /\ pc = "propagateYA.back"
  /\ inp.elements.eccentricity = Rat(1, 3)
  /\ inp.theta0 = Alpha(1)
  /\ inp.thetaF = HalfPi(1)
  /\ inp.deltaTime = Num(1)
  /\ inp.state = StateOf(<<1, -1, 2, 1, 2, -1>>)
  /\ mid # inp.state
  /\ out = inp.state

\* C4: converting a state into the internal ordering and back to the same
\* frame, or out of the internal ordering and back into it, returns the
\* state unchanged, for both frames.
FrameRoundTrip ==
  pc \in {"toInternal.fromInternal", "fromInternal.toInternal"} =>
    out = inp.state

FrameRoundTripReached ==
  /\ pc = "toInternal.fromInternal"
  /\ inp.frame = "RIC"
  /\ inp.state = StateOf(<<1, -1, 2, 1, 2, -1>>)
  /\ mid # inp.state
  /\ out = inp.state

\* C5: with frame RIC toInternalFromFrame sends [R, I, C] to [I, C, R] and
\* fromInternalToFrame sends [I, C, R] to [R, I, C], for position and
\* velocity alike; with frame LVLH both return the state unchanged.
FramePermutation ==
  LET p == inp.state.position
      v == inp.state.velocity
  IN  /\ (pc = "toInternal" /\ inp.frame = "RIC") =>
            /\ out.position = <<p[2], p[3], p[1]>>
            /\ out.velocity = <<v[2], v[3], v[1]>>
      /\ (pc = "fromInternal" /\ inp.frame = "RIC") =>
            /\ out.position = <<p[3], p[1], p[2]>>
            /\ out.velocity = <<v[3], v[1], v[2]>>
      /\ (pc \in {"toInternal", "fromInternal"} /\ inp.frame = "LVLH") =>
            out = inp.state

FramePermutationReached ==
  /\ pc = "toInternal"
  /\ inp.frame = "RIC"
  /\ inp.state = StateOf(<<2, 1, -1, -1, 1, 1>>)
  /\ out.position = <<Num(1), Num(-1), Num(2)>>

\* C6: for e in [0,1) and every anomaly theta, fromModifiedCoordinates at
\* theta undoes toModifiedCoordinates at theta in every component.
ModifiedRoundTrip ==
  (pc = "toModified.fromModified" /\ InRange(inp.elements.eccentricity)) =>
    out = inp.state

ModifiedRoundTripReached ==
  /\ pc = "toModified.fromModified"
  /\ inp.elements.eccentricity = Rat(1, 3)
  /\ inp.theta0 = Alpha(1)
  /\ inp.state = StateOf(<<1, -1, 2, 1, 2, -1>>)
  /\ mid.position # inp.state.position
  /\ mid.velocity # inp.state.velocity
  /\ out = inp.state

\* C7: for e in [0,1), propagating the out-of-plane state from theta0 to
\* theta and then from theta back to theta0 returns the initial (y, vy).
OutOfPlaneRoundTrip ==
  (pc = "outOfPlane.back" /\ InRange(inp.elements.eccentricity)) =>
    out = OutOfPlaneOf(inp.state)

OutOfPlaneRoundTripReached ==
  /\ pc = "outOfPlane.back"
  /\ inp.elements.eccentricity = Rat(1, 3)
  /\ inp.theta0 = Alpha(1)
  /\ inp.thetaF = HalfPi(1)
  /\ OutOfPlaneOf(inp.state) = [y |-> Num(-1), vy |-> Num(2)]
  /\ mid # OutOfPlaneOf(inp.state)
  /\ out = OutOfPlaneOf(inp.state)

\* C10: for valid elements the all-zero state is mapped to the all-zero
\* state by every transform of the pipeline and by both propagators.
OriginFixed ==
  (inp.state = ZeroState /\ InRange(inp.elements.eccentricity)) =>
    /\ pc \in {"toInternal", "fromInternal", "toModified", "fromModified",
               "propagateYA", "propagateYA.circular",
               "propagateHCW.circular"} => out = ZeroState
    /\ pc \in {"pseudoInitial", "inPlane"} => out = ZeroInPlane
    /\ pc = "outOfPlane" => out = ZeroOutOfPlane

OriginFixedReached ==
  /\ inp.state = ZeroState
  /\ inp.elements.eccentricity = Rat(1, 3)
  /\ inp.theta0 = Alpha(1)
  /\ inp.thetaF = HalfPi(1)
  /\ inp.deltaTime = Num(1)
  /\ pc = "propagateYA"
  /\ out = ZeroState

\* C8: deriveAngularMomentum throws "eccentricity must be in [0,1)." when
\* e < 0 or e >= 1, throws "meanMotionRevPerDay must be > 0." when e is in
\* [0,1) and the mean motion is <= 0, and returns a value when e is in [0,1)
\* and the mean motion is > 0.
DeriveValidation ==
  pc = "deriveAngularMomentum" =>
    LET e == inp.eccentricity
        n == inp.meanMotionRevPerDay
    IN  /\ (Less(e, Zero) \/ GreaterEq(e, One)) =>
              out = [error |-> "eccentricity must be in [0,1)."]
        /\ (InRange(e) /\ (Less(n, Zero) \/ n = Zero)) =>
              out = [error |-> "meanMotionRevPerDay must be > 0."]
        /\ (InRange(e) /\ Greater(n, Zero)) =>
              (~IsThrown(out) /\ "value" \in DOMAIN out)

DeriveValidationReached ==
  /\ pc = "deriveAngularMomentum"
  /\ inp.eccentricity = Rat(1, 3)
  /\ inp.meanMotionRevPerDay = Zero
  /\ IsThrown(out)

\* C9, the loop: the Newton loop makes at most 100 updates, stops right
\* after an update whose magnitude is below the tolerance, ends otherwise
\* only after 100 updates, and the call then returns the true anomaly of
\* the last iterate without throwing.
NewtonLoopBounded ==
  pc \in {"newton", "exit", "trueAnomalyFromMean"} =>
    /\ mid.updates <= 100
    /\ pc = "newton" => ~mid.below
    /\ pc # "newton" => (mid.below \/ mid.updates = 100)
    /\ (mid.updates > 0 /\ Comparable(mid.deltaE)
          /\ Comparable(inp.tolerance)) =>
         (mid.below <=> Less(MathAbs(mid.deltaE), inp.tolerance))
    /\ pc = "trueAnomalyFromMean" =>
         /\ ~IsThrown(out)
         /\ out = [value |-> eccentricToTrue(mid.E, inp.eccentricity)]

\* C9, progress: every pass of the loop either leaves the loop or adds
\* one to the loop counter and to the number of updates.
NewtonProgress ==
  pc = "newton" =>
    \/ pc' = "exit"
    \/ /\ pc' = "newton"
       /\ mid'.i = mid.i + 1
       /\ mid'.updates = mid.updates + 1

\* C9: trueAnomalyFromMean always terminates, for any mean anomaly,
\* eccentricity and tolerance: the loop makes at most 100 updates, each pass
\* uses up one of them or leaves the loop, it leaves as soon as an update is
\* below the tolerance, and after the loop the call returns the true anomaly
\* of the last iterate without throwing.
NewtonTerminates ==
  /\ []NewtonLoopBounded
  /\ [][NewtonProgress]_vars

\* the loop ran to its cap without ever converging, and the call returned
NewtonExhaustedReached ==
  /\ pc = "trueAnomalyFromMean"
  /\ mid.updates = 100
  /\ ~mid.below
  /\ inp.tolerance = Zero
  /\ inp.eccentricity = Zero
  /\ ~IsThrown(out)

\* a state: three position and three velocity components, each a number
IsState(r) ==
  /\ DOMAIN r = {"position", "velocity"}
  /\ \A k \in 1..3 : IsNum(r.position[k]) /\ IsNum(r.velocity[k])

\* the stages of propagateYA after its validation, applied to a modified
\* state with the anomalies as given and with JValue for the drift
StagesFromModified(modified, i, JValue) ==
  fromInternalToFrame(
    fromModifiedCoordinates(
      ModifiedOf(
        propagateInPlane(
          computePseudoInitialInPlane(InPlaneOf(modified),
                                      i.elements.eccentricity, i.theta0),
          i.elements.eccentricity, i.thetaF, JValue),
        propagateOutOfPlane(OutOfPlaneOf(modified), i.elements.eccentricity,
                            i.theta0, i.thetaF)),
      i.elements, i.thetaF),
    i.frame)

StagesWithJ(i, JValue) ==
  StagesFromModified(
    toModifiedCoordinates(toInternalFromFrame(i.state, i.frame),
                          i.elements, i.theta0),
    i, JValue)

\* C11: for every e in [0,1) propagateYA returns a state for every
\* combination of theta0, thetaF and deltaTime, consistent with each other
\* or not; it raises nothing and adjusts none of them: the result is that of
\* the stages run with theta0 and thetaF as supplied and with
\* J = kSquared(elements) * deltaTime.
IndependentParameters ==
  (pc = "propagateYA" /\ InRange(inp.elements.eccentricity)) =>
    /\ ~IsThrown(out)
    /\ IsState(out)
    /\ out = StagesWithJ(inp, Mul(kSquared(inp.elements), inp.deltaTime))

\* an elapsed time with no anomaly change: the drift of the elapsed time
\* shows in the result, which is not the initial state
IndependentParametersReached ==
  /\ pc = "propagateYA"
  /\ inp.elements.eccentricity = Rat(1, 3)
  /\ inp.theta0 = Alpha(1)
  /\ inp.thetaF = Alpha(1)
  /\ inp.deltaTime = Num(1)
  /\ inp.state = StateOf(<<1, -1, 2, 1, 2, -1>>)
  /\ IsState(out)
  /\ out # inp.state
  /\ out # StagesWithJ(inp, Zero)

\* C12: validation comes before any computation.  A call of propagateYA or
\* deriveAngularMomentum that throws has assigned no local and executed no
\* conversion, transform, propagation step or arithmetic, and leaves only
\* the error; every statement past the checks runs on validated arguments;
\* a call that returns has run every statement and returns a complete
\* result.
ValidationFirst ==
  /\ pc \in {"ya.thrown", "derive.thrown"} =>
        /\ mid = NoLocals
        /\ IsThrown(out)
        /\ DOMAIN out \cap {"position", "velocity", "value"} = {}
  /\ (IsYAInput /\ pc \notin {"start", "ya.thrown"}) =>
        InRange(inp.elements.eccentricity)
  /\ (IsDeriveInput
        /\ pc \notin {"start", "derive.thrown", "derive.eccentricityChecked"}) =>
        /\ InRange(inp.eccentricity)
        /\ Greater(inp.meanMotionRevPerDay, Zero)
  /\ (pc \in {"start", "ya.validated", "derive.eccentricityChecked",
               "derive.validated"}) =>
        (pc = "start" \/ mid = NoLocals) /\ out = Nothing
  /\ pc = "ya.returned" =>
        /\ Len(mid.steps) = 10
        /\ IsState(out)
  /\ pc = "derive.returned" =>
        /\ mid.steps = <<"nRadPerSec", "a">>
        /\ DOMAIN out = {"value"}

\* a rejected eccentricity with an otherwise ordinary call: thrown at once
ValidationFirstReached ==
  /\ pc = "ya.thrown"
  /\ inp.elements.eccentricity = Rat(3, 2)
  /\ inp.state = StateOf(<<1, -1, 2, 1, 2, -1>>)
  /\ inp.frame = "RIC"
  /\ mid = NoLocals
  /\ IsThrown(out)

\* C13: for every e in [0,1), every anomaly theta, every state and each
\* frame, propagateYA from theta to the same theta over zero elapsed time
\* returns the initial state.
ZeroIntervalIdentity ==
  (/\ pc = "propagateYA"
   /\ InRange(inp.elements.eccentricity)
   /\ inp.thetaF = inp.theta0
   /\ inp.deltaTime = Zero) =>
    out = inp.state

ZeroIntervalIdentityReached ==
  /\ pc = "propagateYA"
  /\ inp.elements.eccentricity = Rat(1, 3)
  /\ inp.theta0 = Alpha(1)
  /\ inp.thetaF = Alpha(1)
  /\ inp.deltaTime = Zero
  /\ inp.frame = "RIC"
  /\ inp.state = StateOf(<<2, 1, -1, -1, 1, 1>>)
  /\ out = inp.state

\* C14: for propagateYA and for propagateHCW, propagating a state given in
\* RIC as [R, I, C] and propagating the same physical state given in LVLH as
\* [I, C, R], with the other arguments the same, give the same physical
\* result: resultRIC = [resultLVLH[2], resultLVLH[0], resultLVLH[1]]
\* (indices from 0), for position and for velocity.
FrameConsistency ==
  (pc \in {"propagateYA.LVLH", "propagateHCW.LVLH"} /\ ~IsThrown(out)) =>
    /\ ~IsThrown(mid)
    /\ mid.position = <<out.position[3], out.position[1], out.position[2]>>
    /\ mid.velocity = <<out.velocity[3], out.velocity[1], out.velocity[2]>>

FrameConsistencyReached ==
  /\ pc = "propagateYA.LVLH"
  /\ inp.elements.eccentricity = Rat(1, 3)
  /\ inp.theta0 = Alpha(1)
  /\ inp.thetaF = HalfPi(1)
  /\ inp.deltaTime = Num(1)
  /\ inp.state = StateOf(<<1, -1, 2, 1, 2, -1>>)
  /\ IsState(out)
  /\ mid # out
  /\ mid # inp.state
  /\ mid.position = <<out.position[3], out.position[1], out.position[2]>>

\* C15: for every state, orbital rate n > 0, deltaTime and frame,
\* propagateHCW over deltaTime followed by propagateHCW over -deltaTime
\* returns the initial state in every position and velocity component.
ForwardBackwardHCW ==
  pc = "propagateHCW.back" => out = inp.state

ForwardBackwardHCWReached ==
  /\ pc = "propagateHCW.back"
  /\ inp.theta0 = Alpha(1)
  /\ inp.thetaF = HalfPi(1)
  /\ inp.frame = "RIC"
  /\ inp.state = StateOf(<<1, -1, 2, 1, 2, -1>>)
  /\ Greater(CircularRate(inp.elements), Zero)
  /\ CircularTime(inp) # Zero
  /\ mid # inp.state
  /\ out = inp.state

\* C16: for every e in [0,1), trueAnomalyFromMean(0, e) returns 0 and
\* trueAnomalyFromMean(pi, e) returns pi: the Newton solve stays at E = M,
\* and the conversion maps 0 to 0 and pi to pi (checked on the returned value
\* where the conversion factor sqrt((1 + e)/(1 - e)) is rational).
ApsidalSymmetry ==
  (/\ pc = "trueAnomalyFromMean"
   /\ InRange(inp.eccentricity)
   /\ inp.meanAnomaly \in {Zero, MathPI}) =>
    /\ mid.E = inp.meanAnomaly
    /\ IsRat(apsidalFactor(inp.eccentricity)) =>
          out = [value |-> inp.meanAnomaly]

ApsidalSymmetryReached ==
  /\ pc = "trueAnomalyFromMean"
  /\ inp.eccentricity = Rat(3, 5)
  /\ inp.meanAnomaly = MathPI
  /\ inp.tolerance = Rat(1, 1000)
  /\ mid.updates = 1
  /\ mid.below
  /\ out = [value |-> MathPI]

\* y^2 + vy^2 of an out-of-plane state
SquaredNorm(q) == Add(Mul(q.y, q.y), Mul(q.vy, q.vy))

\* C17: for e = 0, rho is 1 and propagateOutOfPlane is a pure rotation of
\* (y, vy) by deltaTheta = theta - theta0 with scale factor 1: it conserves
\* y^2 + vy^2 for every initial state and every theta0, theta; and
\* y0 = 100, vy0 = 0, deltaTheta = pi/2 yields y = 0, vy = -100.
CircularOutOfPlaneRotation ==
  (pc = "outOfPlane" /\ inp.elements.eccentricity = Zero) =>
    LET q0 == OutOfPlaneOf(inp.state)
        cosDelta == MathCos(Sub(inp.thetaF, inp.theta0))
        sinDelta == MathSin(Sub(inp.thetaF, inp.theta0))
    IN  /\ rho(Zero, inp.theta0) = One
        /\ rho(Zero, inp.thetaF) = One
        /\ out.y = Add(Mul(cosDelta, q0.y), Mul(sinDelta, q0.vy))
        /\ out.vy = Sub(Mul(cosDelta, q0.vy), Mul(sinDelta, q0.y))
        /\ SquaredNorm(out) = SquaredNorm(q0)
        /\ (/\ q0 = [y |-> Num(100), vy |-> Zero]
            /\ Sub(inp.thetaF, inp.theta0) = HalfPi(1)) =>
              out = [y |-> Zero, vy |-> Num(-100)]

CircularOutOfPlaneRotationReached ==
  /\ pc = "outOfPlane"
  /\ inp.elements.eccentricity = Zero
  /\ inp.state = QuarterPeriodState
  /\ inp.theta0 = Zero
  /\ inp.thetaF = HalfPi(1)
  /\ out = [y |-> Zero, vy |-> Num(-100)]

\* the results a call can have when it runs alone on the objects as given
AloneResults(call, given) ==
  IF call.op = "propagateYA"
  THEN {propagateYA(given[call.state], call.elements, call.theta0,
                    call.thetaF, call.deltaTime, call.frame)}
  ELSE IF call.op = "toInternalFromFrame"
  THEN {toInternalFromFrame(given[call.state], call.frame)}
  ELSE IF call.op = "fromInternalToFrame"
  THEN {fromInternalToFrame(given[call.state], call.frame)}
  ELSE trueAnomalyFromMean(call.meanAnomaly, call.eccentricity,
                           call.tolerance)

\* C18, the state: no statement of any call has modified a state object,
\* and a call that has ended, whatever the other caller did in between, has
\* the result it has when run alone.
CallsIsolated ==
  /\ inp.heap = inp.given
  /\ \A caller \in Callers :
       pc[caller] \in {"returned", "thrown"} =>
         out[caller] \in AloneResults(inp.calls[caller], inp.given)

\* C18, the steps: a statement of one caller changes the position, the
\* locals and the result of that caller only, and neither the arguments nor
\* the state objects.
CallsSeparate ==
  /\ inp' = inp
  /\ \E caller \in Callers :
       \A other \in Callers \ {caller} :
         /\ pc'[other] = pc[other]
         /\ mid'[other] = mid[other]
         /\ out'[other] = out[other]

\* C18: calls do not interfere.  Every public operation reads only its own
\* arguments, modifies neither its input state nor any state shared between
\* calls, and under any interleaving of concurrently running calls each call
\* returns exactly the result it returns when run alone.
NoInterference ==
  /\ []CallsIsolated
  /\ [][CallsSeparate]_vars

\* two calls of propagateYA given the same state object, in different
\* frames: both have ended, each with its own result
NoInterferenceReached ==
  /\ inp.calls[1].op = "propagateYA"
  /\ inp.calls[2].op = "propagateYA"
  /\ inp.calls[1].state = inp.calls[2].state
  /\ inp.calls[1].frame = "RIC"
  /\ inp.calls[2].frame = "LVLH"
  /\ inp.calls[1].elements.eccentricity = Rat(1, 3)
  /\ inp.calls[2].elements.eccentricity = Rat(1, 3)
  /\ pc = <<"returned", "returned">>
  /\ IsState(out[1])
  /\ IsState(out[2])
  /\ out[1] # out[2]

\* an angle j*alpha + p*pi in millionths of a radian, rounded
AngleMicro(x) == (x[2] * 927295 + x[3] * 3141593) \div x[4]

IsAngle(x) == IsNum(x) /\ x[1] = 0

\* -pi <= x <= pi, and -pi < x < pi
InPrincipal(x) ==
  IsAngle(x) /\ AngleMicro(x) >= -3141593 /\ AngleMicro(x) <= 3141593

StrictlyPrincipal(x) ==
  IsAngle(x) /\ AngleMicro(x) > -3141593 /\ AngleMicro(x) < 3141593

\* x and y differ by a multiple of 2*pi
SameModuloTurn(x, y) ==
  /\ IsNum(Sub(x, y))
  /\ Sub(x, y)[1] = 0
  /\ Sub(x, y)[2] = 0
  /\ Sub(x, y)[3] % (2 * Sub(x, y)[4]) = 0

\* C19 as stated: for every valid elements and every initial true anomaly
\* theta0, also outside [0, 2*pi), trueAnomalyAtTime(elements, theta0, 0)
\* returns theta0 (wherever the returned value is a number of the model).
ZeroTimeReturnsInitial ==
  (/\ pc = "trueAnomalyAtTime"
   /\ inp.deltaTime = Zero
   /\ InRange(inp.elements.eccentricity)
   /\ out.value # Unrep) =>
    out.value = inp.theta0

\* C19, amended: for every valid elements and every theta0,
\* trueAnomalyAtTime(elements, theta0, 0) returns the angle of [-pi, pi] that
\* differs from theta0 by a multiple of 2*pi; it returns theta0 itself when
\* theta0 lies in [-pi, pi].
ZeroTimeReturnsPrincipal ==
  (/\ pc = "trueAnomalyAtTime"
   /\ inp.deltaTime = Zero
   /\ InRange(inp.elements.eccentricity)
   /\ out.value # Unrep) =>
    /\ InPrincipal(out.value)
    /\ SameModuloTurn(out.value, inp.theta0)
    /\ InPrincipal(inp.theta0) => out.value = inp.theta0

\* theta0 = 3*pi/2 on a circular orbit: -pi/2 is returned
ZeroTimeReturnsPrincipalReached ==
  /\ pc = "trueAnomalyAtTime"
  /\ inp.deltaTime = Zero
  /\ inp.elements.eccentricity = Zero
  /\ inp.theta0 = HalfPi(3)
  /\ out.value = HalfPi(-1)

\* C20 as stated: for every valid elements, initial true anomaly theta0 and
\* deltaTime, advancing over deltaTime and then over -deltaTime from the
\* anomaly reached returns theta0 (wherever the returned value is a number
\* of the model).
AdvanceReverseReturnsInitial ==
  (/\ pc = "trueAnomalyAtTime.back"
   /\ InRange(inp.elements.eccentricity)
   /\ out.value # Unrep) =>
    out.value = inp.theta0

\* C20, amended: advancing over deltaTime and then over -deltaTime returns
\* an angle of [-pi, pi] that differs from theta0 by a multiple of 2*pi; it
\* returns theta0 itself when -pi < theta0 < pi.
AdvanceReverseReturnsPrincipal ==
  (/\ pc = "trueAnomalyAtTime.back"
   /\ InRange(inp.elements.eccentricity)
   /\ out.value # Unrep) =>
    /\ InPrincipal(out.value)
    /\ SameModuloTurn(out.value, inp.theta0)
    /\ StrictlyPrincipal(inp.theta0) => out.value = inp.theta0

\* from theta0 = 2*pi + alpha forward by pi/2 and back: alpha is returned
AdvanceReverseReturnsPrincipalReached ==
  /\ pc = "trueAnomalyAtTime.back"
  /\ inp.elements.eccentricity = Zero
  /\ inp.theta0 = Add(HalfPi(4), Alpha(1))
  /\ Mul(meanMotion(inp.elements), inp.deltaTime) = HalfPi(1)
  /\ mid.value = Add(HalfPi(1), Alpha(1))
  /\ out.value = Alpha(1)

\* C21 as stated: for eccentricity 0 and every mean anomaly M,
\* trueAnomalyFromMean(M, 0) equals M: the Newton solve starts from E = M
\* and converges at once with E = M, and the conversion returns the same
\* angle.
CircularTrueEqualsMean ==
  (/\ pc = "trueAnomalyFromMean"
   /\ inp.eccentricity = Zero
   /\ inp.tolerance = DefaultTolerance
   /\ OnLattice(inp.meanAnomaly)) =>
    /\ mid.E = inp.meanAnomaly
    /\ mid.updates = 1
    /\ mid.below
    /\ out = [value |-> inp.meanAnomaly]

\* C21, amended: for eccentricity 0 and every mean anomaly M the Newton
\* solve converges in one pass with E = M, and trueAnomalyFromMean(M, 0)
\* returns the angle of [-pi, pi] that differs from M by a multiple of 2*pi;
\* it equals M when M lies in [-pi, pi].
CircularTrueEqualsPrincipalMean ==
  (/\ pc = "trueAnomalyFromMean"
   /\ inp.eccentricity = Zero
   /\ inp.tolerance = DefaultTolerance
   /\ OnLattice(inp.meanAnomaly)) =>
    /\ mid.E = inp.meanAnomaly
    /\ mid.updates = 1
    /\ mid.below
    /\ InPrincipal(out.value)
    /\ SameModuloTurn(out.value, inp.meanAnomaly)
    /\ InPrincipal(inp.meanAnomaly) => out = [value |-> inp.meanAnomaly]

\* M = alpha is returned as it is, after one pass of the loop
CircularTrueEqualsPrincipalMeanReached ==
  /\ pc = "trueAnomalyFromMean"
  /\ inp.eccentricity = Zero
  /\ inp.tolerance = DefaultTolerance
  /\ inp.meanAnomaly = Alpha(1)
  /\ mid.updates = 1
  /\ out = [value |-> Alpha(1)]

\* the locals of propagateYA in the order of their assignment, and the
\* positions of the call: the one after the validation, then one per local
YAStageOrder ==
  <<"internalInitial", "modifiedInitial", "JValue", "inPlaneInitial",
    "pseudoInPlane", "finalInPlane", "outOfPlaneInitial", "finalOutOfPlane",
    "modifiedFinal", "finalTrueInternal">>

YAPositions ==
  <<"ya.validated", "ya.internalInitial", "ya.modifiedInitial", "ya.JValue",
    "ya.inPlaneInitial", "ya.pseudoInPlane", "ya.finalInPlane",
    "ya.outOfPlaneInitial", "ya.finalOutOfPlane", "ya.modifiedFinal",
    "ya.finalTrueInternal">>

\* C22, the state: the locals assigned so far are an initial part of the
\* fixed order, and the one assigned last is the stage of that position
\* applied to the locals before it: the forward transform and the
\* pseudo-initialisation at theta0, the in-plane propagation to thetaF with
\* J, the out-of-plane propagation from theta0 to thetaF, the recombination
\* as [in-plane x, out-of-plane y, in-plane z], the inverse transform at
\* thetaF, and the conversion of the result with the frame of the call.
StagesInOrder ==
  (IsYAInput /\ pc \notin {"start", "ya.thrown"}) =>
    /\ mid.steps = SubSeq(YAStageOrder, 1, Len(mid.steps))
    /\ DOMAIN mid = {"steps"} \cup {mid.steps[k] : k \in 1..Len(mid.steps)}
    /\ pc # "ya.returned" => pc = YAPositions[Len(mid.steps) + 1]
    /\ pc = "ya.validated" => ~eccentricityRejected(inp.elements.eccentricity)
    /\ pc = "ya.internalInitial" =>
         mid.internalInitial = toInternalFromFrame(inp.state, inp.frame)
    /\ pc = "ya.modifiedInitial" =>
         mid.modifiedInitial =
           toModifiedCoordinates(mid.internalInitial, inp.elements, inp.theta0)
    /\ pc = "ya.JValue" => mid.JValue = J(inp.elements, inp.deltaTime)
    /\ pc = "ya.inPlaneInitial" =>
         mid.inPlaneInitial = InPlaneOf(mid.modifiedInitial)
    /\ pc = "ya.pseudoInPlane" =>
         mid.pseudoInPlane =
           computePseudoInitialInPlane(mid.inPlaneInitial,
                                       inp.elements.eccentricity, inp.theta0)
    /\ pc = "ya.finalInPlane" =>
         mid.finalInPlane =
           propagateInPlane(mid.pseudoInPlane, inp.elements.eccentricity,
                            inp.thetaF, mid.JValue)
    /\ pc = "ya.outOfPlaneInitial" =>
         mid.outOfPlaneInitial = OutOfPlaneOf(mid.modifiedInitial)
    /\ pc = "ya.finalOutOfPlane" =>
         mid.finalOutOfPlane =
           propagateOutOfPlane(mid.outOfPlaneInitial,
                               inp.elements.eccentricity,
                               inp.theta0, inp.thetaF)
    /\ pc = "ya.modifiedFinal" =>
         /\ mid.modifiedFinal.position =
              <<mid.finalInPlane.x, mid.finalOutOfPlane.y, mid.finalInPlane.z>>
         /\ mid.modifiedFinal.velocity =
              <<mid.finalInPlane.vx, mid.finalOutOfPlane.vy,
                mid.finalInPlane.vz>>
    /\ pc = "ya.finalTrueInternal" =>
         mid.finalTrueInternal =
           fromModifiedCoordinates(mid.modifiedFinal, inp.elements, inp.thetaF)
    /\ pc = "ya.returned" =>
         /\ mid.steps = YAStageOrder
         /\ out = fromInternalToFrame(mid.finalTrueInternal, inp.frame)

\* C22, the steps: the validation comes first; every later statement
\* assigns the next local of the fixed order and leaves the locals assigned
\* before it, and the arguments, as they are; the return assigns none.
StagesOneByOne ==
  IsYAInput =>
    /\ inp' = inp
    /\ pc = "start" => pc' \in {"ya.validated", "ya.thrown"} /\ mid' = NoLocals
    /\ pc' = "ya.returned" => pc = "ya.finalTrueInternal" /\ mid' = mid
    /\ (pc # "start" /\ pc' # "ya.returned") =>
         /\ Len(mid'.steps) = Len(mid.steps) + 1
         /\ mid'.steps[Len(mid'.steps)] = YAStageOrder[Len(mid'.steps)]
         /\ \A name \in DOMAIN mid \ {"steps"} : mid'[name] = mid[name]

\* C22: propagateYA executes its stages in one fixed order: eccentricity
\* validation, frame-to-internal conversion, modified-coordinate transform
\* at theta0, in-plane pseudo-initialisation at theta0 and in-plane
\* propagation to thetaF with J, out-of-plane propagation from theta0 to
\* thetaF, recombination, inverse modified-coordinate transform at thetaF,
\* internal-to-frame conversion with the same frame tag.
FixedStageOrder ==
  /\ []StagesInOrder
  /\ [][StagesOneByOne]_vars

\* a call with theta0 # thetaF on an eccentric orbit has returned after the
\* ten assignments, and the two transforms have used different anomalies
FixedStageOrderReached ==
  /\ pc = "ya.returned"
  /\ inp.elements.eccentricity = Rat(1, 3)
  /\ inp.theta0 = Alpha(1)
  /\ inp.thetaF = HalfPi(1)
  /\ inp.frame = "RIC"
  /\ inp.state = StateOf(<<1, -1, 2, 1, 2, -1>>)
  /\ mid.steps = YAStageOrder
  /\ mid.finalTrueInternal #
       fromModifiedCoordinates(mid.modifiedFinal, inp.elements, inp.theta0)
  /\ IsState(out)

\* factors by which the elapsed time is scaled
TimeFactors == {Num(-2), Num(-1), Zero, Rat(1, 2), Num(3)}

\* the components of an in-plane state, in the order x, z, vx, vz
InPlaneTuple(q) == <<q.x, q.z, q.vx, q.vz>>

\* result = base + JValue * (unit - base), component by component
AffineInJ(result, base, unit, JValue) ==
  \A k \in 1..4 :
    InPlaneTuple(result)[k] =
      Add(InPlaneTuple(base)[k],
          Mul(JValue, Sub(InPlaneTuple(unit)[k], InPlaneTuple(base)[k])))

\* unit - base = vz * (3*rho^2, -3*e*s, -6*e*s, -3*e*s')
DriftProportionalTo(vz, base, unit, e, rhoVal, sVal, sPrimeVal) ==
  /\ Sub(unit.x, base.x) = Prod(<<Num(3), rhoVal, rhoVal, vz>>)
  /\ Sub(unit.z, base.z) = Prod(<<Num(-3), e, sVal, vz>>)
  /\ Sub(unit.vx, base.vx) = Prod(<<Num(-6), e, sVal, vz>>)
  /\ Sub(unit.vz, base.vz) = Prod(<<Num(-3), e, sPrimeVal, vz>>)

\* C23: the secular terms scale linearly with the elapsed time.
\* J(elements, deltaTime) = kSquared(elements) * deltaTime is 0 at
\* deltaTime = 0, J(a*dt) = a*J(dt), and J has the sign of deltaTime; for a
\* fixed pseudo-initial state, e and theta every component of
\* propagateInPlane is its value at J = 0 plus J times a coefficient
\* proportional to the pseudo-initial vz.
SecularTermsLinear ==
  pc = "inPlane" =>
    /\ J(inp.elements, inp.deltaTime) =
         Mul(kSquared(inp.elements), inp.deltaTime)
    /\ J(inp.elements, Zero) = Zero
    /\ \A a \in TimeFactors :
         J(inp.elements, Mul(a, inp.deltaTime)) =
           Mul(a, J(inp.elements, inp.deltaTime))
    /\ Sign(J(inp.elements, inp.deltaTime)) = Sign(inp.deltaTime)
    /\ AffineInJ(out,
                 propagateInPlane(InPlaneOf(inp.state),
                                  inp.elements.eccentricity, inp.thetaF, Zero),
                 propagateInPlane(InPlaneOf(inp.state),
                                  inp.elements.eccentricity, inp.thetaF, One),
                 J(inp.elements, inp.deltaTime))
    /\ DriftProportionalTo(
         InPlaneOf(inp.state).vz,
         propagateInPlane(InPlaneOf(inp.state),
                          inp.elements.eccentricity, inp.thetaF, Zero),
         propagateInPlane(InPlaneOf(inp.state),
                          inp.elements.eccentricity, inp.thetaF, One),
         inp.elements.eccentricity,
         rho(inp.elements.eccentricity, inp.thetaF),
         s(inp.elements.eccentricity, inp.thetaF),
         sPrime(inp.elements.eccentricity, inp.thetaF))

\* an eccentric orbit, a pseudo-initial state with vz = -1 and a negative
\* elapsed time: the result differs from the one without drift
SecularTermsLinearReached ==
  /\ pc = "inPlane"
  /\ inp.elements.eccentricity = Rat(1, 3)
  /\ inp.thetaF = Alpha(1)
  /\ inp.deltaTime = Num(-1)
  /\ inp.state = StateOf(<<1, -1, 2, 1, 2, -1>>)
  /\ Sign(J(inp.elements, inp.deltaTime)) = -1
  /\ out # propagateInPlane(InPlaneOf(inp.state), inp.elements.eccentricity,
                            inp.thetaF, Zero)

\* the cross-track part and the in-track/radial part of a state given in a
\* frame
CrossTrackOf(state, frame) == OutOfPlaneOf(toInternalFromFrame(state, frame))

InTrackRadialOf(state, frame) == InPlaneOf(toInternalFromFrame(state, frame))

\* the state with the cross-track components of state and the in-track and
\* radial components of other
WithInTrackRadialOf(state, other, frame) ==
  fromInternalToFrame(ModifiedOf(InTrackRadialOf(other, frame),
                                 CrossTrackOf(state, frame)),
                      frame)

\* C24: cross-track motion in propagateHCW is decoupled.  For fixed n and
\* deltaTime the cross-track output is a function of the cross-track inputs
\* only: an initial state that differs only in its in-track and radial
\* components gives the same cross-track result; and an initial state with
\* zero in-track and radial position and velocity yields zero in-track and
\* radial position and velocity.
HCWCrossTrackDecoupled ==
  pc = "propagateHCW" =>
    /\ \A other \in States :
         CrossTrackOf(
           propagateHCW(WithInTrackRadialOf(inp.state, other, inp.frame),
                        CircularRate(inp.elements), CircularTime(inp),
                        inp.frame),
           inp.frame) = CrossTrackOf(out, inp.frame)
    /\ CrossTrackOf(out, inp.frame).y =
         Add(Mul(MathCos(Sub(inp.thetaF, inp.theta0)),
                 CrossTrackOf(inp.state, inp.frame).y),
             Prod(<<Div(One, CircularRate(inp.elements)),
                    MathSin(Sub(inp.thetaF, inp.theta0)),
                    CrossTrackOf(inp.state, inp.frame).vy>>))
    /\ CrossTrackOf(out, inp.frame).vy =
         Add(Prod(<<Neg(CircularRate(inp.elements)),
                    MathSin(Sub(inp.thetaF, inp.theta0)),
                    CrossTrackOf(inp.state, inp.frame).y>>),
             Mul(MathCos(Sub(inp.thetaF, inp.theta0)),
                 CrossTrackOf(inp.state, inp.frame).vy))
    /\ InTrackRadialOf(inp.state, inp.frame) = ZeroInPlane =>
         InTrackRadialOf(out, inp.frame) = ZeroInPlane

\* a state in RIC with cross-track velocity only, over a quarter turn: the
\* result has cross-track position only, and no other component
HCWCrossTrackDecoupledReached ==
  /\ pc = "propagateHCW"
  /\ inp.frame = "RIC"
  /\ inp.state = StateOf(<<0, 0, 0, 0, 0, 1>>)
  /\ inp.theta0 = Zero
  /\ inp.thetaF = HalfPi(1)
  /\ InTrackRadialOf(out, inp.frame) = ZeroInPlane
  /\ out.velocity[3] = Zero
  /\ out.position[3] = Div(One, CircularRate(inp.elements))

\* C25 as stated: propagateYA and deriveAngularMomentum reject the same
\* eccentricity values.  Every eccentricity for which 0 <= e < 1 does not
\* hold, a not-a-number among them, makes propagateYA raise its eccentricity
\* error exactly as it makes deriveAngularMomentum raise its eccentricity
\* error.
SameEccentricityRejection ==
  (pc = "validate.deriveAngularMomentum"
     /\ ~InRange(inp.elements.eccentricity)) =>
    /\ out = [error |-> "eccentricity must be in [0,1)."]
    /\ IsThrown(mid)
    /\ mid.error = "Eccentricity must be in range [0, 1)"

\* C25 as the code behaves: the two functions agree on every eccentricity
\* that is a number, and differ on a not-a-number, which deriveAngularMomentum
\* rejects and propagateYA lets pass
SameNumberRejection ==
  pc = "validate.deriveAngularMomentum" =>
    /\ ~InRange(inp.elements.eccentricity) =>
          out = [error |-> "eccentricity must be in [0,1)."]
    /\ (~InRange(inp.elements.eccentricity)
          /\ inp.elements.eccentricity # NaN) =>
          /\ IsThrown(mid)
          /\ mid.error = "Eccentricity must be in range [0, 1)"
    /\ inp.elements.eccentricity = NaN => ~IsThrown(mid)

\* a not-a-number eccentricity: propagateYA has returned a state, every
\* component of which is a not-a-number, and deriveAngularMomentum has thrown
NaNEccentricityAccepted ==
  /\ pc = "validate.deriveAngularMomentum"
  /\ inp.elements.eccentricity = NaN
  /\ inp.state = StateOf(<<1, -1, 2, 1, 2, -1>>)
  /\ DOMAIN mid = {"position", "velocity"}
  /\ \A k \in 1..3 : mid.position[k] = NaN /\ mid.velocity[k] = NaN
  /\ out = [error |-> "eccentricity must be in [0,1)."]

\* C26: the pseudo-initial map is the exact inverse of the in-plane
\* transition at the same anomaly with no drift: for every e in [0,1), every
\* theta and every in-plane state q = (x, z, vx, vz),
\* propagateInPlane(computePseudoInitialInPlane(q, e, theta), e, theta, 0)
\* equals q.
PseudoInitialInverse ==
  (pc = "pseudoInitial.inPlane" /\ InRange(inp.elements.eccentricity)) =>
    /\ mid = computePseudoInitialInPlane(InPlaneOf(inp.state),
                                         inp.elements.eccentricity,
                                         inp.theta0)
    /\ out = InPlaneOf(inp.state)

\* an eccentric orbit away from the apsides: the pseudo-initial state is
\* not the state itself, and the transition brings it back
PseudoInitialInverseReached ==
  /\ pc = "pseudoInitial.inPlane"
  /\ inp.elements.eccentricity = Rat(1, 3)
  /\ inp.theta0 = Alpha(1)
  /\ inp.state = StateOf(<<1, -1, 2, 1, 2, -1>>)
  /\ mid # InPlaneOf(inp.state)
  /\ out = InPlaneOf(inp.state)

\* the divisors of a call of propagateYA, as its stages compute them:
\* h^1.5 in kSquared; k2 * rho at theta0 in toModifiedCoordinates; 1 - e^2
\* and rho0 in computePseudoInitialInPlane; rho and rho * rho at thetaF in
\* propagateInPlane; rho0 and rhoT / rho0 in propagateOutOfPlane; rho at
\* thetaF in fromModifiedCoordinates
YADivisors(elements, theta0, thetaF) ==
  {MathPow15(elements.angularMomentum),
   Mul(kSquared(elements), rho(elements.eccentricity, theta0)),
   Sub(One, Mul(elements.eccentricity, elements.eccentricity)),
   rho(elements.eccentricity, theta0),
   rho(elements.eccentricity, thetaF),
   Mul(rho(elements.eccentricity, thetaF), rho(elements.eccentricity, thetaF)),
   Div(rho(elements.eccentricity, thetaF), rho(elements.eccentricity, theta0))}

\* 1 - e <= rho(e, theta) <= 1 + e and rho(e, theta) > 0
RhoBounded(e, theta) ==
  /\ GreaterEq(rho(e, theta), Sub(One, e))
  /\ GreaterEq(Add(One, e), rho(e, theta))
  /\ Greater(rho(e, theta), Zero)

\* C27: no division by zero for valid eccentricity.  In a call of
\* propagateYA that has passed the validation (with h > 0 and mu > 0) no
\* divisor of a stage is zero; for every e in [0,1) and every theta,
\* rho(e, theta) lies in [1 - e, 1 + e] and is positive and 1 - e^2 is
\* positive, every divisor is a positive number, and the states computed are
\* made of numbers.
NoZeroDivisor ==
  (IsYAInput /\ pc \notin {"start", "ya.thrown"}) =>
    /\ \A d \in YADivisors(inp.elements, inp.theta0, inp.thetaF) : d # Zero
    /\ inp.elements.eccentricity # NaN =>
         /\ InRange(inp.elements.eccentricity)
         /\ RhoBounded(inp.elements.eccentricity, inp.theta0)
         /\ RhoBounded(inp.elements.eccentricity, inp.thetaF)
         /\ Greater(Sub(One, Mul(inp.elements.eccentricity,
                                 inp.elements.eccentricity)), Zero)
         /\ \A d \in YADivisors(inp.elements, inp.theta0, inp.thetaF) :
              IsRat(d) /\ Greater(d, Zero)
         /\ pc = "ya.modifiedInitial" => IsState(mid.modifiedInitial)
         /\ pc = "ya.modifiedFinal" => IsState(mid.modifiedFinal)
         /\ pc = "ya.finalTrueInternal" => IsState(mid.finalTrueInternal)
         /\ pc = "ya.returned" => IsState(out)

\* e = 5/6 from the apoapsis, where rho is 1 - e = 1/6, to the periapsis,
\* where rho is 1 + e = 11/6: the call has returned a state
NoZeroDivisorReached ==
  /\ pc = "ya.returned"
  /\ inp.elements.eccentricity = Rat(5, 6)
  /\ inp.theta0 = HalfPi(2)
  /\ inp.thetaF = Zero
  /\ inp.state = StateOf(<<1, -1, 2, 1, 2, -1>>)
  /\ rho(inp.elements.eccentricity, inp.theta0) = Rat(1, 6)
  /\ rho(inp.elements.eccentricity, inp.thetaF) = Rat(11, 6)
  /\ IsState(out)

\* the state with the in-track and radial components of state and the
\* cross-track components of other
WithCrossTrackOf(state, other, frame) ==
  fromInternalToFrame(ModifiedOf(InTrackRadialOf(state, frame),
                                 CrossTrackOf(other, frame)),
                      frame)

\* the states whose components replace those of the initial state
ReplacingStates == {ZeroState, StateOf(<<2, 1, -1, -1, 1, 1>>)}

\* C28: in propagateYA the cross-track and in-plane subspaces never mix.
\* The cross-track output position and velocity depend only on the
\* cross-track inputs, the elements, theta0 and thetaF: a call whose initial
\* state differs only in its in-track and radial components, whatever its
\* deltaTime, returns the same cross-track components (those of the call
\* with the other in-plane components and deltaTime = 0); and the in-track
\* and radial outputs do not depend on the cross-track inputs.
YASubspacesSeparate ==
  (pc = "propagateYA" /\ ~IsThrown(out)) =>
    /\ \A other \in ReplacingStates :
         CrossTrackOf(
           propagateYA(WithInTrackRadialOf(inp.state, other, inp.frame),
                       inp.elements, inp.theta0, inp.thetaF, Zero,
                       inp.frame),
           inp.frame) = CrossTrackOf(out, inp.frame)
    /\ \A other \in ReplacingStates :
         InTrackRadialOf(
           propagateYA(WithCrossTrackOf(inp.state, other, inp.frame),
                       inp.elements, inp.theta0, inp.thetaF, inp.deltaTime,
                       inp.frame),
           inp.frame) = InTrackRadialOf(out, inp.frame)
    /\ CrossTrackOf(inp.state, inp.frame) = ZeroOutOfPlane =>
         CrossTrackOf(out, inp.frame) = ZeroOutOfPlane
    /\ InTrackRadialOf(inp.state, inp.frame) = ZeroInPlane =>
         InTrackRadialOf(out, inp.frame) = ZeroInPlane

\* a state in RIC with cross-track position only, on an eccentric orbit:
\* the result has cross-track components only, and they have changed
YASubspacesSeparateReached ==
  /\ pc = "propagateYA"
  /\ inp.elements.eccentricity = Rat(1, 3)
  /\ inp.frame = "RIC"
  /\ inp.state = StateOf(<<0, 0, 1, 0, 0, 0>>)
  /\ inp.theta0 = Zero
  /\ inp.thetaF = Alpha(1)
  /\ inp.deltaTime = Num(1)
  /\ IsState(out)
  /\ InTrackRadialOf(out, inp.frame) = ZeroInPlane
  /\ CrossTrackOf(out, inp.frame) # CrossTrackOf(inp.state, inp.frame)

\* C29, the state: a call of deriveAngularMomentum whose eccentricity is
\* outside [0,1) or not a number has thrown the eccentricity error, whatever
\* its mean motion; one that has thrown the mean-motion error has a valid
\* eccentricity and a mean motion that is not above 0 (a not-a-number
\* among them); one past both checks has both arguments valid.
DeriveChecksInOrder ==
  IsDeriveInput =>
    /\ pc = "derive.thrown" =>
         /\ out.error \in {"eccentricity must be in [0,1).",
                           "meanMotionRevPerDay must be > 0."}
         /\ out.error = "eccentricity must be in [0,1)." <=>
              ~InRange(inp.eccentricity)
         /\ out.error = "meanMotionRevPerDay must be > 0." =>
              ~Greater(inp.meanMotionRevPerDay, Zero)
    /\ ~InRange(inp.eccentricity) => pc \in {"start", "derive.thrown"}
    /\ (InRange(inp.eccentricity)
          /\ ~Greater(inp.meanMotionRevPerDay, Zero)) =>
         pc \in {"start", "derive.eccentricityChecked", "derive.thrown"}
    /\ NaN \in {inp.eccentricity, inp.meanMotionRevPerDay} =>
         pc \in {"start", "derive.eccentricityChecked", "derive.thrown"}

\* C29, the steps: the eccentricity error is thrown by the first statement,
\* the mean-motion error by the second, which runs only after the
\* eccentricity has been found valid.
DeriveChecksOneByOne ==
  (IsDeriveInput /\ pc' = "derive.thrown") =>
    /\ out'.error = "eccentricity must be in [0,1)." => pc = "start"
    /\ out'.error = "meanMotionRevPerDay must be > 0." =>
         pc = "derive.eccentricityChecked" /\ InRange(inp.eccentricity)

\* C29: deriveAngularMomentum checks the eccentricity before the mean
\* motion: when the eccentricity is outside [0,1) and meanMotionRevPerDay is
\* also <= 0 the error raised is the eccentricity error, and the mean-motion
\* error is raised only when the eccentricity is valid; a not-a-number
\* eccentricity or mean motion is rejected by the corresponding check.
EccentricityCheckedFirst ==
  /\ []DeriveChecksInOrder
  /\ [][DeriveChecksOneByOne]_vars

\* both arguments invalid: the eccentricity error has been thrown
EccentricityCheckedFirstReached ==
  /\ IsDeriveInput
  /\ pc = "derive.thrown"
  /\ inp.eccentricity = Rat(3, 2)
  /\ inp.meanMotionRevPerDay = Num(-5)
  /\ out = [error |-> "eccentricity must be in [0,1)."]

\* C30: the true anomaly returned by trueAnomalyFromMean, and therefore by
\* trueAnomalyAtTime, lies in the principal interval [-pi, pi] for every e
\* in [0,1) and every finite mean anomaly (wherever the returned value is a
\* number of the model); when the mean anomaly, or theta0 advanced by
\* n * deltaTime, lies outside that interval the result is the equivalent
\* angle modulo 2*pi, which on a circular orbit differs from the unwrapped
\* angle by a multiple of 2*pi.
ResultInPrincipalInterval ==
  (/\ pc \in {"trueAnomalyAtTime", "trueAnomalyAtTime.back"}
   /\ InRange(inp.elements.eccentricity)) =>
    /\ out.value # Unrep => InPrincipal(out.value)
    /\ (pc = "trueAnomalyAtTime" /\ inp.elements.eccentricity = Zero) =>
         SameModuloTurn(out.value,
                        Add(inp.theta0,
                            Mul(meanMotion(inp.elements), inp.deltaTime)))
    /\ \A tolerance \in Tolerances :
         \A theta \in trueAnomalyFromMean(inp.theta0,
                                          inp.elements.eccentricity,
                                          tolerance) :
           /\ theta # Unrep => InPrincipal(theta)
           /\ inp.elements.eccentricity = Zero =>
                SameModuloTurn(theta, inp.theta0)

\* from theta0 = pi forward by pi/2 on a circular orbit: the mean anomaly
\* 3*pi/2 is outside the interval, and -pi/2 is returned
ResultInPrincipalIntervalReached ==
  /\ pc = "trueAnomalyAtTime"
  /\ inp.elements.eccentricity = Zero
  /\ inp.theta0 = HalfPi(2)
  /\ Mul(meanMotion(inp.elements), inp.deltaTime) = HalfPi(1)
  /\ ~InPrincipal(Add(inp.theta0, Mul(meanMotion(inp.elements), inp.deltaTime)))
  /\ out.value = HalfPi(-1)

===========================================================================
